---- MODULE Spec2Model ----
(***************************************************************************)
(* vnet-manager: the VNet interface operations                             *)
(* (vnet_manager/operations/interface.py) as a state machine over the      *)
(* kernel link table, the iptables OUTPUT chain and the process table.     *)
(* Every kernel query and every kernel call of a pass is one step.         *)
(***************************************************************************)
EXTENDS Integers, Sequences, FiniteSets, TLC

\* ----------------------------------------------------------------- bounds
MaxSwitches == 2
MaxVeths == 2
NumMacs == 2
MaxPasses == 2
\* The switches and the veths of a config, counted together.
MaxInterfaces == 3
\* The switch counts the status report is looked at for go past ten, where
\* the bridge names get a second digit.
MaxStatusSwitches == 12
\* The switches and veths of a config that two processes bring up at the
\* same time.
MaxConcurrentSwitches == 1
MaxConcurrentVeths == 1

\* ------------------------------------------------------------------ names
\* An interface name is a tuple of tokens: a prefix followed by decimal digits.
NONE == <<"none">>

RECURSIVE Str(_)
\* str(i) for a natural i: its decimal digits, most significant first.
Str(i) == IF i < 10 THEN <<i>> ELSE Str(i \div 10) \o <<i % 10>>

\* settings.VNET_BRIDGE_NAME
VNET_BRIDGE_NAME == <<"br">>
\* settings.VNET_SNIFFER_PCAP_DIR
VNET_SNIFFER_PCAP_DIR == <<"pcapdir/">>

BridgeName(i) == VNET_BRIDGE_NAME \o Str(i)
VethName(k) == <<"veth">> \o Str(k)
\* A peer name that is not itself declared as a veth.
ExtPeer == <<"peer">> \o Str(0)

BridgeNames == {BridgeName(i) : i \in 0..(MaxSwitches - 1)}
VethNames == {VethName(k) : k \in 1..MaxVeths}
AllNames == BridgeNames \cup VethNames \cup {ExtPeer}

\* ----------------------------------------------------------------- config
\* One entry of config["veths"]; has_peer / has_stp say whether the key is there.
VethData(k) ==
    {[name |-> VethName(k), bridge |-> b, has_peer |-> hp, peer |-> pr,
      has_stp |-> hs, stp |-> st] :
        b \in BridgeNames, hp \in BOOLEAN, pr \in (VethNames \cup {ExtPeer, NONE}),
        hs \in BOOLEAN, st \in BOOLEAN}

\* The record stands for a mapping: an absent key has the placeholder. The
\* peer may be any name, the veth's own included (validate_veth_config asks
\* only for a str).
WellFormedVeth(d) ==
    /\ d.has_peer <=> d.peer # NONE
    /\ ~d.has_stp => ~d.stp

RECURSIVE VethSeqsOfLen(_)
\* The veth mappings with m entries, in declaration order.
VethSeqsOfLen(m) ==
    IF m = 0 THEN {<<>>}
    ELSE {Append(s, d) : s \in VethSeqsOfLen(m - 1), d \in {x \in VethData(m) : WellFormedVeth(x)}}

\* config["machines"], in order: each machine with the "bridge" number of each
\* of its interfaces.
Machines == << [name |-> "m1", bridges |-> <<0>>],
               [name |-> "m2", bridges |-> <<1, 0>>] >>

Configs ==
    {[switches |-> n, has_veths |-> hv, veths |-> vs, machines |-> Machines] :
        n \in 0..MaxSwitches, hv \in BOOLEAN,
        vs \in UNION {VethSeqsOfLen(m) : m \in 0..MaxVeths}}

WellFormedConfig(c) ==
    /\ ~c.has_veths => c.veths = <<>>
    /\ c.switches + Len(c.veths) <= MaxInterfaces

\* get_vnet_interface_names_from_config
get_vnet_interface_names_from_config(config) ==
    [i \in 1..config.switches |-> BridgeName(i - 1)]

\* ----------------------------------------------------------- kernel model
\* addr_set: the address was given by a link("set", address=...) request.
\* index: the interface index, the number a link keeps from its creation to
\* its deletion (0: none).
Absent == [exists |-> FALSE, kind |-> "NA", state |-> "NA", mac |-> 0,
           addr_set |-> FALSE, master |-> NONE, peer |-> NONE, stp |-> FALSE,
           index |-> 0]

\* random_mac_generator(): any of the addresses
random_mac_generator == 1..NumMacs

\* IPRoute().link_lookup(ifname=ifname)
link_lookup(L, ifname) == IF L[ifname].exists THEN <<ifname>> ELSE <<>>

\* check_if_interface_exists
check_if_interface_exists(L, ifname) == link_lookup(L, ifname) # <<>>

\* A link the kernel has just created: down, no master, and with an address of
\* the kernel's choosing (0: not one random_mac_generator handed out).
NewLink(kind, peer, index) ==
    [exists |-> TRUE, kind |-> kind, state |-> "down", mac |-> 0,
     addr_set |-> FALSE, master |-> NONE, peer |-> peer, stp |-> FALSE,
     index |-> index]

\* The index the kernel gives a new link. Its index counter only goes up, so
\* the index is one no link has and none of those a command that is running
\* has read before (held). An index is only ever compared with another for
\* equality, so which number it is cannot be observed: it is the lowest such.
FreshIndex(L, held) ==
    LET taken == held \cup {L[n].index : n \in {x \in DOMAIN L : L[x].exists}}
    IN  CHOOSE i \in 1..(Cardinality(taken) + 1) :
            i \notin taken /\ \A j \in 1..(i - 1) : j \in taken

\* link("add", kind="bridge"): a new bridge, down, no STP
LinkAddBridge(L, ifname, held) ==
    [L EXCEPT ![ifname] = NewLink("bridge", NONE, FreshIndex(L, held))]

\* link("add", kind="veth", peer=...): both halves, down, each the other's peer
LinkAddVeth(L, ifname, peer, held) ==
    LET index == FreshIndex(L, held)
    IN  [L EXCEPT ![ifname] = NewLink("veth", peer, index),
                  ![peer] = NewLink("veth", ifname, FreshIndex(L, held \cup {index}))]

\* The tables after the kernel has looked at the addresses of the bridges bs
\* again, one after the other: a bridge whose address was never set takes the
\* lowest address of its ports, and one left without ports an address that is
\* none of the generator's. The addresses of the generator are ordered as
\* numbers; how a kernel-chosen address (0) compares with them is not known.
RECURSIVE RecalculateBridges(_, _)
RecalculateBridges(L, bs) ==
    IF bs = {} THEN {L}
    ELSE LET b == CHOOSE x \in bs : TRUE
             ports == {L[n].mac : n \in {x \in DOMAIN L : L[x].exists /\ L[x].master = b}}
             given == ports \ {0}
             inherited == {m \in given : \A x \in given : m <= x} \cup (ports \cap {0})
             recalculated ==
                 IF ~L[b].exists \/ L[b].kind # "bridge" \/ L[b].addr_set THEN {L}
                 ELSE IF ports = {} THEN {[L EXCEPT ![b].mac = 0]}
                 ELSE {[L EXCEPT ![b].mac = m] : m \in inherited}
         IN  UNION {RecalculateBridges(M, bs \ {b}) : M \in recalculated}

\* link("del"): the tables the request can leave. The link goes, a veth takes
\* its peer half along, the ports of a deleted bridge lose their master, and a
\* bridge that loses a port has its address looked at again.
LinkDel(L, ifname) ==
    LET gone == {ifname} \cup
                (IF L[ifname].kind = "veth" /\ L[ifname].peer # NONE
                 THEN {L[ifname].peer} ELSE {})
        rest == [n \in DOMAIN L |->
                   IF n \in gone THEN Absent
                   ELSE IF L[n].master \in gone THEN [L[n] EXCEPT !.master = NONE]
                   ELSE L[n]]
    IN RecalculateBridges(rest, {L[n].master : n \in gone} \ (gone \cup {NONE}))

LinkSetState(L, ifname, s) == [L EXCEPT ![ifname].state = s]

\* link("set", address=...): the tables the request can leave
LinkSetAddress(L, ifname, mac) ==
    RecalculateBridges([L EXCEPT ![ifname].mac = mac, ![ifname].addr_set = TRUE],
                       {L[ifname].master} \ {NONE})
\* link("set", master=...): the tables the request can leave. A link that is
\* a port of that bridge already stays as it is; otherwise it leaves the bridge
\* it was a port of and both bridges have their addresses looked at again.
LinkSetMaster(L, ifname, bridge) ==
    IF L[ifname].master = bridge THEN {L}
    ELSE RecalculateBridges([L EXCEPT ![ifname].master = bridge],
                            {bridge, L[ifname].master} \ {NONE})
SetStp(L, bridge, on) == [L EXCEPT ![bridge].stp = on]

\* The rule "OUTPUT -o <ifname> -j DROP" is named by its interface.
RuleExists(chain, ifname) == \E j \in 1..Len(chain) : chain[j] = ifname
RuleCount(chain, ifname) == Cardinality({j \in 1..Len(chain) : chain[j] = ifname})

\* start_tcpdump_on_vnet_interface: the command line of the capture process
TcpdumpCmdline(ifname) ==
    << <<"tcpdump">>, <<"-i">>, ifname, <<"-U">>, <<"-w">>,
       VNET_SNIFFER_PCAP_DIR \o ifname \o <<".pcap">> >>

\* a occurs in b as a run of neighbouring characters
IsSubstring(a, b) ==
    \E s \in 0..(Len(b) - Len(a)) :
        \A k \in 1..Len(a) : ToString(b[s + k]) = ToString(a[k])

\* check_if_sniffer_exists that looks for the two words anywhere in the
\* arguments instead of comparing whole arguments.
check_if_sniffer_exists_substring(table, ifname) ==
    \E j \in 1..Len(table) :
        /\ \E t \in 1..Len(table[j]) : IsSubstring(<<"tcpdump">>, table[j][t])
        /\ \E t \in 1..Len(table[j]) : IsSubstring(ifname, table[j][t])

\* check_if_sniffer_exists
check_if_sniffer_exists(table, ifname) ==
    \E j \in 1..Len(table) :
        /\ \E t \in 1..Len(table[j]) : table[j][t] = <<"tcpdump">>
        /\ \E t \in 1..Len(table[j]) : table[j][t] = ifname

CaptureCount(table, ifname) ==
    Cardinality({j \in 1..Len(table) : table[j] = TcpdumpCmdline(ifname)})

\* ------------------------------------------------------------------ state
VARIABLES
    cfg,      \* the config handed to every pass
    links,    \* the kernel link table: name -> link
    rules,    \* the iptables OUTPUT chain, in order
    procs,    \* the process table: command lines, in order of start
    run,      \* per process: the pass it runs and where it is in it
    hist,     \* the passes that ended, in order
    faults,   \* kernel calls and rule insertions refused so far
    out,      \* what the last status command printed
    val       \* the ValidateConfig object and what its validators did

vars == <<cfg, links, rules, procs, run, hist, faults, out, val>>

\* The status command has not been started: nothing is printed. While it runs,
\* pc is its position, i the row it works on, rows the list "statuses",
\* sniffer, info and peer the values it has read for that row, dev, peer_id
\* and master_id the link indexes it has read for it (0: none); error is the
\* exception that left it.
NoOutput == [kind |-> "none", rows |-> <<>>, pc |-> "idle", i |-> 0,
             sniffer |-> FALSE, info |-> Absent, peer |-> NONE,
             dev |-> 0, peer_id |-> 0, master_id |-> 0, error |-> "none"]

\* No ValidateConfig object was made.
NoValidator == [pc |-> "none"]

Main == "main"
\* A second, independent invocation of the program.
Second == "second"
Procs == {Main, Second}

Idle == [op |-> "none", sniffer |-> FALSE, pc |-> "idle", i |-> 0, k |-> 0,
         status |-> "ok", calls |-> <<>>, errors |-> <<>>, warnings |-> <<>>,
         failed |-> [call |-> "none", ifname |-> NONE],
         empty |-> FALSE, b2b |-> FALSE, overlap |-> FALSE,
         pre |-> [links |-> [n \in AllNames |-> Absent], rules |-> <<>>,
                  procs |-> <<>>]]

Init ==
    /\ cfg \in {c \in Configs : WellFormedConfig(c)}
    /\ links = [n \in AllNames |-> Absent]
    /\ rules = <<>>
    /\ procs = <<>>
    /\ run = [p \in Procs |-> Idle]
    /\ hist = <<>>
    /\ faults = 0
    /\ out = NoOutput
    /\ val = NoValidator

\* ------------------------------------------------------------ pass control
HostEmpty ==
    /\ \A n \in AllNames : ~links[n].exists
    /\ rules = <<>>
    /\ procs = <<>>

Goto(r, pc) == [r EXCEPT !.pc = pc]
\* The pass returns normally.
Return(r) == [r EXCEPT !.pc = "done", !.status = "ok"]
\* An exception leaves the pass: nothing in interface.py catches it.
Raise(r, err) == [r EXCEPT !.pc = "done", !.status = err]
Log(r, call, ifname) ==
    [r EXCEPT !.calls = Append(@, [call |-> call, ifname |-> ifname])]
\* logger.error(...)
LogError(r, what, ifname) ==
    [r EXCEPT !.errors = Append(@, [what |-> what, ifname |-> ifname])]

\* logger.warning(...)
LogWarning(r, what, ifname) ==
    [r EXCEPT !.warnings = Append(@, [what |-> what, ifname |-> ifname])]

\* The process takes its next position; a pass that ended is recorded.
Advance(p, r) ==
    /\ run' = [run EXCEPT ![p] = r]
    /\ hist' = IF r.pc = "done"
               THEN Append(hist, [op |-> r.op, sniffer |-> r.sniffer, status |-> r.status,
                                  empty |-> r.empty, b2b |-> r.b2b])
               ELSE hist

HasVeths(config) == config.has_veths
NumVeths(config) == Len(config.veths)

\* The interface a configure_vnet_interface call works on.
CurBridge(r) == BridgeName(r.i)
CurVeth(r) == cfg.veths[r.k]
CurName(r) == IF r.k = 0 THEN CurBridge(r) ELSE CurVeth(r).name

\* ------------------------------------------------------------- bring-up
\* UpVethLoop that writes the STP flag only after the attach was due: never.
UpVethLoopNoStp(r, k) ==
    IF k > NumVeths(cfg) THEN Return(r)
    ELSE [r EXCEPT !.k = k, !.pc = "up_v_check"]

\* ensure_vnet_veth_interfaces: the head of the loop over config["veths"]
UpVethLoop(r, k) ==
    IF k > NumVeths(cfg) THEN Return(r)
    ELSE IF cfg.veths[k].has_stp THEN [r EXCEPT !.k = k, !.pc = "up_v_stp_lookup"]
    ELSE [r EXCEPT !.k = k, !.pc = "up_v_check"]

\* bring_up_vnet_interfaces: the head of the loop over the bridge names
UpBridgeLoop(r, i) ==
    IF i < cfg.switches THEN [r EXCEPT !.i = i, !.k = 0, !.pc = "up_br_check"]
    ELSE IF HasVeths(cfg) THEN UpVethLoop(r, 1)
    ELSE Return(r)

\* bring_down_vnet_interfaces: the loops over the veths, then the bridges
DownBridgeLoop(r, i) ==
    IF i < cfg.switches THEN [r EXCEPT !.i = i, !.k = 0, !.pc = "down_br_check"]
    ELSE Return(r)

DownVethLoop(r, k) ==
    IF HasVeths(cfg) /\ k <= NumVeths(cfg)
    THEN [r EXCEPT !.k = k, !.pc = "down_v_check"]
    ELSE DownBridgeLoop(r, 0)

\* delete_vnet_interfaces: the loops over the veths, then the bridges
DelBridgeLoop(r, i) ==
    IF i < cfg.switches THEN [r EXCEPT !.i = i, !.k = 0, !.pc = "del_br_check"]
    ELSE Return(r)

DelVethLoop(r, k) ==
    IF HasVeths(cfg) /\ k <= NumVeths(cfg)
    THEN [r EXCEPT !.k = k, !.pc = "del_v_check"]
    ELSE DelBridgeLoop(r, 0)

\* A pass is called: bring_up_vnet_interfaces(config, sniffer),
\* bring_down_vnet_interfaces(config) or delete_vnet_interfaces(config).
Start(p, op, sniffer) ==
    /\ run[p].pc \in {"idle", "done"}
    /\ Len(hist) < MaxPasses
    /\ faults = 0
    /\ op = "up" \/ ~sniffer
    /\ LET r == [Idle EXCEPT !.op = op, !.sniffer = sniffer,
                             !.empty = HostEmpty,
                             !.b2b = (run[p].pc = "done"),
                             !.pre = [links |-> links, rules |-> rules,
                                      procs |-> procs]]
       IN Advance(p, CASE op = "up" -> UpBridgeLoop(r, 0)
                       [] op = "down" -> DownVethLoop(r, 1)
                       [] OTHER -> DelVethLoop(r, 1))
    /\ UNCHANGED <<cfg, links, rules, procs, faults, out, val>>

\* A process is started that calls bring_up_vnet_interfaces(config, sniffer)
\* once, whatever another process is doing at that moment.
StartOnce(p, sniffer) ==
    /\ run[p].pc = "idle"
    /\ LET r == [Idle EXCEPT !.op = "up", !.sniffer = sniffer,
                             !.overlap = \E q \in Procs \ {p} :
                                            run[q].pc \notin {"idle", "done"}]
       IN Advance(p, UpBridgeLoop(r, 0))
    /\ UNCHANGED <<cfg, links, rules, procs, faults, out, val>>

\* UpBrCheck without the existence test: every bridge is created anew.
UpBrCheckNoLookup(p) ==
    /\ run[p].pc = "up_br_check"
    /\ Advance(p, Goto(run[p], "up_br_add"))
    /\ UNCHANGED <<cfg, links, rules, procs, faults, out, val>>

\* UpBrCheck that configures a bridge it finds (down, new address, up).
UpBrCheckReconfigure(p) ==
    /\ run[p].pc = "up_br_check"
    /\ LET r == run[p]
       IN Advance(p, IF check_if_interface_exists(links, CurBridge(r))
                     THEN Goto(r, "cfg_lookup")
                     ELSE Goto(r, "up_br_add"))
    /\ UNCHANGED <<cfg, links, rules, procs, faults, out, val>>

\* bring_up_vnet_interfaces: if not check_if_interface_exists(ifname)
UpBrCheck(p) ==
    /\ run[p].pc = "up_br_check"
    /\ LET r == run[p]
       IN Advance(p, IF check_if_interface_exists(links, CurBridge(r))
                     THEN Goto(r, "up_br_rule_check")
                     ELSE Goto(r, "up_br_add"))
    /\ UNCHANGED <<cfg, links, rules, procs, faults, out, val>>

\* create_vnet_interface: link("add", kind="bridge"), then configure it
UpBrAdd(p) ==
    /\ run[p].pc = "up_br_add"
    /\ LET r == Log(run[p], "link_add_bridge", CurBridge(run[p]))
       IN IF links[CurBridge(r)].exists
          THEN /\ Advance(p, Raise(r, "NetlinkError"))
               /\ UNCHANGED links
          ELSE /\ links' = LinkAddBridge(links, CurBridge(r), {out.dev, out.peer_id, out.master_id})
               /\ Advance(p, Goto(r, "cfg_lookup"))
    /\ UNCHANGED <<cfg, rules, procs, faults, out, val>>

\* configure_vnet_interface: dev = ip.link_lookup(ifname=ifname)[0]
CfgLookup(p) ==
    /\ run[p].pc = "cfg_lookup"
    /\ LET r == run[p]
       IN Advance(p, IF link_lookup(links, CurName(r)) = <<>>
                     THEN Raise(r, "IndexError")
                     ELSE Goto(r, "cfg_down"))
    /\ UNCHANGED <<cfg, links, rules, procs, faults, out, val>>

\* configure_vnet_interface: link("set", index=dev, state="down")
CfgDown(p) ==
    /\ run[p].pc = "cfg_down"
    /\ LET r == Log(run[p], "set_down", CurName(run[p]))
           name == CurName(r)
       IN IF ~links[name].exists
          THEN /\ Advance(p, Raise(r, "NetlinkError"))
               /\ UNCHANGED links
          ELSE /\ links' = LinkSetState(links, name, "down")
               /\ Advance(p, Goto(r, "cfg_mac"))
    /\ UNCHANGED <<cfg, rules, procs, faults, out, val>>

\* CfgMac that leaves the interface the address it has.
CfgMacKeepsAddress(p) ==
    /\ run[p].pc = "cfg_mac"
    /\ Advance(p, Goto(run[p], "cfg_up"))
    /\ UNCHANGED <<cfg, links, rules, procs, faults, out, val>>

\* configure_vnet_interface: link("set", address=random_mac_generator())
CfgMac(p) ==
    /\ run[p].pc = "cfg_mac"
    /\ LET r == Log(run[p], "set_address", CurName(run[p]))
           name == CurName(r)
       IN IF ~links[name].exists
          THEN /\ Advance(p, Raise(r, "NetlinkError"))
               /\ UNCHANGED links
          ELSE /\ \E mac \in random_mac_generator :
                     links' \in LinkSetAddress(links, name, mac)
               /\ Advance(p, Goto(r, "cfg_up"))
    /\ UNCHANGED <<cfg, rules, procs, faults, out, val>>

\* CfgUp that returns to the caller past the rule step.
CfgUpSkipsRule(p) ==
    /\ run[p].pc = "cfg_up"
    /\ LET r == Log(run[p], "set_up", CurName(run[p]))
           name == CurName(r)
       IN IF ~links[name].exists
          THEN /\ Advance(p, Raise(r, "NetlinkError"))
               /\ UNCHANGED links
          ELSE /\ links' = LinkSetState(links, name, "up")
               /\ Advance(p, IF r.k = 0 THEN Goto(r, "up_br_set_up")
                             ELSE UpVethLoop(r, r.k + 1))
    /\ UNCHANGED <<cfg, rules, procs, faults, out, val>>

\* configure_vnet_interface: link("set", state="up"); back in the caller
CfgUp(p) ==
    /\ run[p].pc = "cfg_up"
    /\ LET r == Log(run[p], "set_up", CurName(run[p]))
           name == CurName(r)
       IN IF ~links[name].exists
          THEN /\ Advance(p, Raise(r, "NetlinkError"))
               /\ UNCHANGED links
          ELSE /\ links' = LinkSetState(links, name, "up")
               /\ Advance(p, IF r.k = 0 THEN Goto(r, "up_br_rule_check")
                             ELSE UpVethLoop(r, r.k + 1))
    /\ UNCHANGED <<cfg, rules, procs, faults, out, val>>

\* UpBrRuleCheck without the iptables -C query: the rule is always appended.
UpBrRuleCheckNoQuery(p) ==
    /\ run[p].pc = "up_br_rule_check"
    /\ Advance(p, Goto(run[p], "up_br_rule_add"))
    /\ UNCHANGED <<cfg, links, rules, procs, faults, out, val>>

\* create_vnet_interface_iptables_rules: iptables -C
UpBrRuleCheck(p) ==
    /\ run[p].pc = "up_br_rule_check"
    /\ LET r == run[p]
       IN Advance(p, IF RuleExists(rules, CurBridge(r))
                     THEN Goto(r, "up_br_set_up")
                     ELSE Goto(r, "up_br_rule_add"))
    /\ UNCHANGED <<cfg, links, rules, procs, faults, out, val>>

\* create_vnet_interface_iptables_rules: iptables -A
UpBrRuleAdd(p) ==
    /\ run[p].pc = "up_br_rule_add"
    /\ LET r == run[p]
       IN /\ rules' = Append(rules, CurBridge(r))
          /\ Advance(p, Goto(Log(r, "rule_insert", CurBridge(r)), "up_br_set_up"))
    /\ UNCHANGED <<cfg, links, procs, faults, out, val>>

\* UpBrRuleAddFails that lets the CalledProcessError leave the pass.
UpBrRuleAddFailsRaises(p) ==
    /\ run[p].pc = "up_br_rule_add"
    /\ faults = 0
    /\ LET c == [call |-> "rule_insert", ifname |-> CurBridge(run[p])]
           r == [Log(run[p], c.call, c.ifname) EXCEPT !.failed = c]
       IN Advance(p, Raise(r, "CalledProcessError"))
    /\ faults' = faults + 1
    /\ UNCHANGED <<cfg, links, rules, procs, out, val>>

\* create_vnet_interface_iptables_rules: iptables -A exits non-zero; the
\* CalledProcessError is caught and logged, and the caller goes on
UpBrRuleAddFails(p) ==
    /\ run[p].pc = "up_br_rule_add"
    /\ faults = 0
    /\ LET c == [call |-> "rule_insert", ifname |-> CurBridge(run[p])]
           r == [Log(run[p], c.call, c.ifname) EXCEPT !.failed = c]
       IN Advance(p, Goto(LogError(r, c.call, c.ifname), "up_br_set_up"))
    /\ faults' = faults + 1
    /\ UNCHANGED <<cfg, links, rules, procs, out, val>>

\* bring_up_vnet_interfaces: after the capture step, the next bridge
UpAfterSetUp(r) ==
    IF r.sniffer THEN Goto(r, "up_br_sniffer_check") ELSE UpBridgeLoop(r, r.i + 1)

\* bring_up_vnet_interfaces: ip.link("set", ifname=ifname, state="up")
UpBrSetUp(p) ==
    /\ run[p].pc = "up_br_set_up"
    /\ LET r == Log(run[p], "set_up", CurBridge(run[p]))
       IN IF ~links[CurBridge(r)].exists
          THEN /\ Advance(p, Raise(r, "NetlinkError"))
               /\ UNCHANGED links
          ELSE /\ links' = LinkSetState(links, CurBridge(r), "up")
               /\ Advance(p, UpAfterSetUp(r))
    /\ UNCHANGED <<cfg, rules, procs, faults, out, val>>

\* UpBrSnifferCheck without the look at the process table.
UpBrSnifferCheckNoLookup(p) ==
    /\ run[p].pc = "up_br_sniffer_check"
    /\ Advance(p, Goto(run[p], "up_br_spawn"))
    /\ UNCHANGED <<cfg, links, rules, procs, faults, out, val>>

\* bring_up_vnet_interfaces: sniffer and not check_if_sniffer_exists(ifname)
UpBrSnifferCheck(p) ==
    /\ run[p].pc = "up_br_sniffer_check"
    /\ LET r == run[p]
       IN Advance(p, IF check_if_sniffer_exists(procs, CurBridge(r))
                     THEN UpBridgeLoop(r, r.i + 1)
                     ELSE Goto(r, "up_br_spawn"))
    /\ UNCHANGED <<cfg, links, rules, procs, faults, out, val>>

\* start_tcpdump_on_vnet_interface
UpBrSpawn(p) ==
    /\ run[p].pc = "up_br_spawn"
    /\ LET r == Log(run[p], "spawn_capture", CurBridge(run[p]))
       IN /\ procs' = Append(procs, TcpdumpCmdline(CurBridge(r)))
          /\ Advance(p, UpBridgeLoop(r, r.i + 1))
    /\ UNCHANGED <<cfg, links, rules, faults, out, val>>

\* ensure_vnet_veth_interfaces: nbd.interfaces[data["bridge"]]
UpVStpLookup(p) ==
    /\ run[p].pc = "up_v_stp_lookup"
    /\ LET r == run[p]
       IN Advance(p, IF ~links[CurVeth(r).bridge].exists
                     THEN Raise(r, "KeyError")
                     ELSE Goto(r, "up_v_stp"))
    /\ UNCHANGED <<cfg, links, rules, procs, faults, out, val>>

\* UpVStp that leaves the flag alone when an earlier veth has set it.
UpVStpFirstWins(p) ==
    /\ run[p].pc = "up_v_stp"
    /\ LET r == run[p]
           data == CurVeth(r)
       IN IF ~links[data.bridge].exists
          THEN /\ Advance(p, Raise(r, "NetlinkError"))
               /\ UNCHANGED links
          ELSE /\ links' = IF \E k \in 1..(r.k - 1) :
                                  cfg.veths[k].has_stp /\ cfg.veths[k].bridge = data.bridge
                           THEN links
                           ELSE SetStp(links, data.bridge, data.stp)
               /\ Advance(p, Goto(Log(r, "set_stp", data.bridge), "up_v_check"))
    /\ UNCHANGED <<cfg, rules, procs, faults, out, val>>

\* ensure_vnet_veth_interfaces: bridge.set("br_stp_state", state), written to
\* the kernel when the with block is left
UpVStp(p) ==
    /\ run[p].pc = "up_v_stp"
    /\ LET r == run[p]
           data == CurVeth(r)
       IN IF ~links[data.bridge].exists
          THEN /\ Advance(p, Raise(r, "NetlinkError"))
               /\ UNCHANGED links
          ELSE /\ links' = SetStp(links, data.bridge, data.stp)
               /\ Advance(p, Goto(Log(r, "set_stp", data.bridge), "up_v_check"))
    /\ UNCHANGED <<cfg, rules, procs, faults, out, val>>

\* ensure_vnet_veth_interfaces: if not check_if_interface_exists(name), and
\* create_veth_interface's test of "peer" in data
UpVCheck(p) ==
    /\ run[p].pc = "up_v_check"
    /\ LET r == run[p]
           data == CurVeth(r)
       IN Advance(p, IF ~check_if_interface_exists(links, data.name) /\ data.has_peer
                     THEN Goto(r, "up_v_add")
                     ELSE Goto(r, "up_v_dev_lookup"))
    /\ UNCHANGED <<cfg, links, rules, procs, faults, out, val>>

\* create_veth_interface: link("add", kind="veth", peer=data["peer"])
UpVAdd(p) ==
    /\ run[p].pc = "up_v_add"
    /\ LET data == CurVeth(run[p])
           r == Log(run[p], "link_add_veth", data.name)
       IN IF links[data.name].exists \/ links[data.peer].exists
             \/ data.peer = data.name
          THEN /\ Advance(p, Raise(r, "NetlinkError"))
               /\ UNCHANGED links
          ELSE /\ links' = LinkAddVeth(links, data.name, data.peer,
                                          {out.dev, out.peer_id, out.master_id})
               /\ Advance(p, Goto(r, "up_v_dev_lookup"))
    /\ UNCHANGED <<cfg, rules, procs, faults, out, val>>

\* configure_veth_interface: dev = ip.link_lookup(ifname=name)[0]
UpVDevLookup(p) ==
    /\ run[p].pc = "up_v_dev_lookup"
    /\ LET r == run[p]
       IN Advance(p, IF link_lookup(links, CurVeth(r).name) = <<>>
                     THEN Raise(r, "IndexError")
                     ELSE Goto(r, "up_v_bridge_lookup"))
    /\ UNCHANGED <<cfg, links, rules, procs, faults, out, val>>

\* configure_veth_interface: bridge = ip.link_lookup(ifname=data["bridge"])[0]
UpVBridgeLookup(p) ==
    /\ run[p].pc = "up_v_bridge_lookup"
    /\ LET r == run[p]
       IN Advance(p, IF link_lookup(links, CurVeth(r).bridge) = <<>>
                     THEN Raise(r, "IndexError")
                     ELSE Goto(r, "up_v_master"))
    /\ UNCHANGED <<cfg, links, rules, procs, faults, out, val>>

\* configure_veth_interface: ip.link("set", index=dev, master=bridge)
UpVMaster(p) ==
    /\ run[p].pc = "up_v_master"
    /\ LET data == CurVeth(run[p])
           r == Log(run[p], "set_master", data.name)
       IN IF ~links[data.name].exists \/ ~links[data.bridge].exists
          THEN /\ Advance(p, Raise(r, "NetlinkError"))
               /\ UNCHANGED links
          ELSE /\ links' \in LinkSetMaster(links, data.name, data.bridge)
               /\ Advance(p, Goto(r, "cfg_lookup"))
    /\ UNCHANGED <<cfg, rules, procs, faults, out, val>>

\* ----------------------------------------------------------- bring-down
\* bring_down_vnet_interfaces: if check_if_interface_exists(name)
DownVCheck(p) ==
    /\ run[p].pc = "down_v_check"
    /\ LET r == run[p]
       IN Advance(p, IF check_if_interface_exists(links, CurVeth(r).name)
                     THEN Goto(r, "down_v_set")
                     ELSE DownVethLoop(r, r.k + 1))
    /\ UNCHANGED <<cfg, links, rules, procs, faults, out, val>>

\* bring_down_vnet_interfaces: ip.link("set", ifname=name, state="down")
DownVSet(p) ==
    /\ run[p].pc = "down_v_set"
    /\ LET name == CurVeth(run[p]).name
           r == Log(run[p], "set_down", name)
       IN IF ~links[name].exists
          THEN /\ Advance(p, Raise(r, "NetlinkError"))
               /\ UNCHANGED links
          ELSE /\ links' = LinkSetState(links, name, "down")
               /\ Advance(p, DownVethLoop(r, r.k + 1))
    /\ UNCHANGED <<cfg, rules, procs, faults, out, val>>

\* bring_down_vnet_interfaces: if check_if_interface_exists(ifname), else
\* the warning that the bridge does not exist
DownBrCheck(p) ==
    /\ run[p].pc = "down_br_check"
    /\ LET r == run[p]
       IN Advance(p, IF check_if_interface_exists(links, CurBridge(r))
                     THEN Goto(r, "down_br_set")
                     ELSE DownBridgeLoop(LogWarning(r, "absent", CurBridge(r)), r.i + 1))
    /\ UNCHANGED <<cfg, links, rules, procs, faults, out, val>>

\* DownBrSet that removes the bridge instead of setting it down.
DownBrSetDeletes(p) ==
    /\ run[p].pc = "down_br_set"
    /\ LET r == Log(run[p], "link_del", CurBridge(run[p]))
       IN /\ links[CurBridge(r)].exists
          /\ links' \in LinkDel(links, CurBridge(r))
          /\ Advance(p, DownBridgeLoop(r, r.i + 1))
    /\ UNCHANGED <<cfg, rules, procs, faults, out, val>>

\* bring_down_vnet_interfaces: ip.link("set", ifname=ifname, state="down")
DownBrSet(p) ==
    /\ run[p].pc = "down_br_set"
    /\ LET r == Log(run[p], "set_down", CurBridge(run[p]))
       IN IF ~links[CurBridge(r)].exists
          THEN /\ Advance(p, Raise(r, "NetlinkError"))
               /\ UNCHANGED links
          ELSE /\ links' = LinkSetState(links, CurBridge(r), "down")
               /\ Advance(p, DownBridgeLoop(r, r.i + 1))
    /\ UNCHANGED <<cfg, rules, procs, faults, out, val>>

\* --------------------------------------------------------------- delete
\* DelVCheck without the test of "peer" in data.
DelVCheckNoPeerTest(p) ==
    /\ run[p].pc = "del_v_check"
    /\ LET r == run[p]
       IN Advance(p, IF check_if_interface_exists(links, CurVeth(r).name)
                     THEN Goto(r, "del_v_del")
                     ELSE DelVethLoop(r, r.k + 1))
    /\ UNCHANGED <<cfg, links, rules, procs, faults, out, val>>

\* delete_vnet_interfaces: if "peer" in data and check_if_interface_exists(name)
DelVCheck(p) ==
    /\ run[p].pc = "del_v_check"
    /\ LET r == run[p]
           data == CurVeth(r)
       IN Advance(p, IF data.has_peer /\ check_if_interface_exists(links, data.name)
                     THEN Goto(r, "del_v_del")
                     ELSE DelVethLoop(r, r.k + 1))
    /\ UNCHANGED <<cfg, links, rules, procs, faults, out, val>>

\* delete_vnet_interfaces: ip.link("del", ifname=name)
DelVDel(p) ==
    /\ run[p].pc = "del_v_del"
    /\ LET name == CurVeth(run[p]).name
           r == Log(run[p], "link_del", name)
       IN IF ~links[name].exists
          THEN /\ Advance(p, Raise(r, "NetlinkError"))
               /\ UNCHANGED links
          ELSE /\ links' \in LinkDel(links, name)
               /\ Advance(p, DelVethLoop(r, r.k + 1))
    /\ UNCHANGED <<cfg, rules, procs, faults, out, val>>

\* DelBrCheck that leaves every bridge where it is.
DelBrCheckSkips(p) ==
    /\ run[p].pc = "del_br_check"
    /\ Advance(p, DelBridgeLoop(run[p], run[p].i + 1))
    /\ UNCHANGED <<cfg, links, rules, procs, faults, out, val>>

\* DelBrCheck without the existence test.
DelBrCheckNoLookup(p) ==
    /\ run[p].pc = "del_br_check"
    /\ Advance(p, Goto(run[p], "del_br_del"))
    /\ UNCHANGED <<cfg, links, rules, procs, faults, out, val>>

\* delete_vnet_interfaces: if check_if_interface_exists(ifname)
DelBrCheck(p) ==
    /\ run[p].pc = "del_br_check"
    /\ LET r == run[p]
       IN Advance(p, IF check_if_interface_exists(links, CurBridge(r))
                     THEN Goto(r, "del_br_del")
                     ELSE DelBridgeLoop(r, r.i + 1))
    /\ UNCHANGED <<cfg, links, rules, procs, faults, out, val>>

\* DelBrDel that also takes the bridge's DROP rule out of the chain.
DelBrDelFlushRule(p) ==
    /\ run[p].pc = "del_br_del"
    /\ LET r == Log(run[p], "link_del", CurBridge(run[p]))
       IN /\ links[CurBridge(r)].exists
          /\ links' \in LinkDel(links, CurBridge(r))
          /\ rules' = SelectSeq(rules, LAMBDA x : x # CurBridge(r))
          /\ Advance(p, DelBridgeLoop(r, r.i + 1))
    /\ UNCHANGED <<cfg, procs, faults, out, val>>

\* delete_vnet_interfaces: ip.link("del", ifname=ifname)
DelBrDel(p) ==
    /\ run[p].pc = "del_br_del"
    /\ LET r == Log(run[p], "link_del", CurBridge(run[p]))
       IN IF ~links[CurBridge(r)].exists
          THEN /\ Advance(p, Raise(r, "NetlinkError"))
               /\ UNCHANGED links
          ELSE /\ links' \in LinkDel(links, CurBridge(r))
               /\ Advance(p, DelBridgeLoop(r, r.i + 1))
    /\ UNCHANGED <<cfg, rules, procs, faults, out, val>>

\* ----------------------------------------------------------- environment
\* The cooperating actor that owns a veth declared without "peer" creates its
\* half on the host (the other half lives in another namespace).
ExternalCreate(k) ==
    /\ \A p \in Procs : run[p].pc \in {"idle", "done"}
    /\ k \in 1..NumVeths(cfg)
    /\ ~cfg.veths[k].has_peer
    /\ ~links[cfg.veths[k].name].exists
    /\ links' = [links EXCEPT ![cfg.veths[k].name] =
                     NewLink("veth", NONE,
                             FreshIndex(links, {out.dev, out.peer_id, out.master_id}))]
    /\ run' = [p \in Procs |-> Idle]
    /\ UNCHANGED <<cfg, rules, procs, hist, faults, out, val>>

\* An actor other than this program creates the bridge a declared veth names
\* as its "bridge" and that is none of the config's switch bridges, and sets
\* it up.
ExternalCreateBridge(k) ==
    /\ \A p \in Procs : run[p].pc \in {"idle", "done"}
    /\ k \in 1..NumVeths(cfg)
    /\ cfg.veths[k].bridge \notin {BridgeName(i) : i \in 0..(cfg.switches - 1)}
    /\ ~links[cfg.veths[k].bridge].exists
    /\ links' = [links EXCEPT ![cfg.veths[k].bridge] =
                     [NewLink("bridge", NONE,
                              FreshIndex(links, {out.dev, out.peer_id, out.master_id}))
                        EXCEPT !.state = "up"]]
    /\ run' = [p \in Procs |-> Idle]
    /\ UNCHANGED <<cfg, rules, procs, hist, faults, out, val>>

\* The netlink call a position issues, as [call, ifname].
KernelCall(r) ==
    CASE r.pc = "up_br_add" -> [call |-> "link_add_bridge", ifname |-> CurBridge(r)]
      [] r.pc = "up_v_add" -> [call |-> "link_add_veth", ifname |-> CurVeth(r).name]
      [] r.pc = "cfg_down" -> [call |-> "set_down", ifname |-> CurName(r)]
      [] r.pc = "cfg_mac" -> [call |-> "set_address", ifname |-> CurName(r)]
      [] r.pc = "cfg_up" -> [call |-> "set_up", ifname |-> CurName(r)]
      [] r.pc = "up_br_set_up" -> [call |-> "set_up", ifname |-> CurBridge(r)]
      [] r.pc = "up_v_stp" -> [call |-> "set_stp", ifname |-> CurVeth(r).bridge]
      [] r.pc = "up_v_master" -> [call |-> "set_master", ifname |-> CurVeth(r).name]
      [] r.pc = "down_v_set" -> [call |-> "set_down", ifname |-> CurVeth(r).name]
      [] r.pc = "down_br_set" -> [call |-> "set_down", ifname |-> CurBridge(r)]
      [] r.pc = "del_v_del" -> [call |-> "link_del", ifname |-> CurVeth(r).name]
      [] r.pc = "del_br_del" -> [call |-> "link_del", ifname |-> CurBridge(r)]
      [] OTHER -> [call |-> "none", ifname |-> NONE]

\* The kernel refuses a netlink call (permission, invalid argument): pyroute2
\* raises NetlinkError, which nothing in the pass catches.
KernelFault(p) ==
    /\ faults = 0
    /\ KernelCall(run[p]).call # "none"
    /\ LET c == KernelCall(run[p])
           r == [Log(run[p], c.call, c.ifname) EXCEPT !.failed = c]
       IN Advance(p, Raise(r, "NetlinkError"))
    /\ faults' = faults + 1
    /\ UNCHANGED <<cfg, links, rules, procs, out, val>>

\* ------------------------------------------------------- specifications
\* The steps of bring_up_vnet_interfaces
UpStep(p) ==
    \/ UpBrCheck(p) \/ UpBrAdd(p)
    \/ CfgLookup(p) \/ CfgDown(p) \/ CfgMac(p) \/ CfgUp(p)
    \/ UpBrRuleCheck(p) \/ UpBrRuleAdd(p) \/ UpBrSetUp(p)
    \/ UpBrSnifferCheck(p) \/ UpBrSpawn(p)
    \/ UpVStpLookup(p) \/ UpVStp(p) \/ UpVCheck(p) \/ UpVAdd(p)
    \/ UpVDevLookup(p) \/ UpVBridgeLookup(p) \/ UpVMaster(p)

\* The steps of bring_down_vnet_interfaces and of delete_vnet_interfaces
TeardownStep(p) ==
    \/ DownVCheck(p) \/ DownVSet(p) \/ DownBrCheck(p) \/ DownBrSet(p)
    \/ DelVCheck(p) \/ DelVDel(p) \/ DelBrCheck(p) \/ DelBrDel(p)

PassStep(p) == UpStep(p) \/ TeardownStep(p)

\* Sequential passes of one process on a kernel that refuses nothing.
Next ==
    \/ \E op \in {"up", "down", "delete"}, sn \in BOOLEAN : Start(Main, op, sn)
    \/ PassStep(Main)
    \/ \E k \in 1..MaxVeths : ExternalCreate(k)

Spec == Init /\ [][Next]_vars

\* Sequential passes for a config whose veths all have a "peer", on a host
\* where the bridges that veths name and that are no switch bridges of the
\* config are made by someone else. With MaxSwitches switches every bridge
\* name is a switch bridge: the configs looked at have fewer.
NextExternalBridge ==
    \/ \E op \in {"up", "down", "delete"}, sn \in BOOLEAN : Start(Main, op, sn)
    \/ PassStep(Main)
    \/ \E k \in 1..MaxVeths : ExternalCreateBridge(k)

InitExternalBridge ==
    /\ Init
    /\ cfg.switches < MaxSwitches
    /\ \A k \in 1..NumVeths(cfg) : cfg.veths[k].has_peer

SpecExternalBridge == InitExternalBridge /\ [][NextExternalBridge]_vars

\* The same, on a kernel that refuses one call; the pass in which it does is
\* the last one looked at.
NextFault == Next \/ KernelFault(Main)

SpecFault == Init /\ [][NextFault]_vars

\* Sequential passes with one rule insertion that iptables refuses; the pass in
\* which it does is the last one looked at.
NextRuleFault == Next \/ UpBrRuleAddFails(Main)

SpecRuleFault == Init /\ [][NextRuleFault]_vars

\* Two processes that each run one bring-up pass for the same config, one
\* after the other or step by step in any interleaving: nothing serialises
\* them.
NextConcurrent ==
    \E p \in Procs : (\E sn \in BOOLEAN : StartOnce(p, sn)) \/ UpStep(p)

InitConcurrent ==
    /\ Init
    /\ cfg.switches <= MaxConcurrentSwitches
    /\ NumVeths(cfg) <= MaxConcurrentVeths

SpecConcurrent == InitConcurrent /\ [][NextConcurrent]_vars

\* ------------------------------------------------------------ status report
NA == "NA"
\* A name column that holds the placeholder.
NAName == <<NA>>
\* str() of a bool, as tabulate prints it
PyStr(b) == IF b THEN "True" ELSE "False"

RECURSIVE MachineUses(_, _, _)
\* get_machines_by_vnet_interface_name, one machine: its name once for every
\* interface whose bridge number equals int(ifname[-1])
MachineUses(m, ifname, j) ==
    IF j > Len(m.bridges) THEN <<>>
    ELSE (IF m.bridges[j] = ifname[Len(ifname)] THEN <<m.name>> ELSE <<>>)
         \o MachineUses(m, ifname, j + 1)

RECURSIVE MachinesFrom(_, _, _)
MachinesFrom(config, ifname, j) ==
    IF j > Len(config.machines) THEN <<>>
    ELSE MachineUses(config.machines[j], ifname, 1) \o MachinesFrom(config, ifname, j + 1)

\* get_machines_by_vnet_interface_name
get_machines_by_vnet_interface_name(config, ifname) == MachinesFrom(config, ifname, 1)

\* show_vnet_interface_status: the row of a bridge the lookup found, from the
\* sniffer value read before and the link as NDB has it
BridgeInfoRow(config, info, sniffer, ifname) ==
    [name |-> ifname, status |-> info.state,
     l2_addr |-> ToString(info.mac),
     sniffer |-> PyStr(sniffer),
     stp |-> PyStr(info.stp),
     used_by |-> get_machines_by_vnet_interface_name(config, ifname)]

\* show_vnet_interface_status: the row of one bridge name, on a host that
\* stays as it is while the row is made
BridgeRow(config, L, table, ifname) ==
    IF link_lookup(L, ifname) = <<>>
    THEN [name |-> ifname, status |-> NA, l2_addr |-> NA, sniffer |-> NA,
          stp |-> NA, used_by |-> get_machines_by_vnet_interface_name(config, ifname)]
    ELSE BridgeInfoRow(config, L[ifname], check_if_sniffer_exists(table, ifname), ifname)

\* show_vnet_interface_status: the table, one row per bridge name
show_vnet_interface_status(config, L, table) ==
    [j \in 1..config.switches |->
        BridgeRow(config, L, table, get_vnet_interface_names_from_config(config)[j])]

\* IFLA_LINK of a veth whose other half is in another namespace is the index
\* the other half has there. byindex gives, for every such veth, the link of
\* this namespace that has that index, or NONE when no link has it: any link
\* may.
IndexLookups(L) ==
    [{n \in DOMAIN L : L[n].exists /\ L[n].kind = "veth" /\ L[n].peer = NONE}
        -> {x \in DOMAIN L : L[x].exists} \cup {NONE}]

\* ip.link("get", index=peer_id): the link the Peer column names
PeerByIndex(L, byindex, name) ==
    IF L[name].peer = NONE THEN byindex[name]
    ELSE IF L[L[name].peer].exists THEN L[name].peer
    ELSE NONE

\* show_vnet_veth_interface_status: the exception the row of one veth ends
\* with: the get of an index no link has, then the [0] of the empty list of
\* IFLA_MASTER attributes
VethRowError(L, byindex, data) ==
    IF link_lookup(L, data.name) = <<>> THEN "none"
    ELSE IF PeerByIndex(L, byindex, data.name) = NONE THEN "NetlinkError"
    ELSE IF L[data.name].master = NONE THEN "IndexError"
    ELSE "none"

\* show_vnet_veth_interface_status: the row of a veth the lookup found, from
\* the link info and the names its peer and master indexes gave
VethInfoRow(data, info, peer_name, master_name) ==
    [name |-> data.name, status |-> info.state, l2_addr |-> ToString(info.mac),
     peer |-> peer_name, master |-> master_name]

\* show_vnet_veth_interface_status: the row of one veth, on a host that stays
\* as it is while the row is made
VethRow(L, byindex, data) ==
    IF link_lookup(L, data.name) = <<>>
    THEN [name |-> data.name, status |-> NA, l2_addr |-> NA, peer |-> NAName,
          master |-> data.bridge]
    ELSE VethInfoRow(data, L[data.name], PeerByIndex(L, byindex, data.name),
                     L[data.name].master)

\* show_vnet_veth_interface_status: the table, or the exception that ends it,
\* on a host that stays as it is while the table is made. config["veths"]
\* raises KeyError when the config has no such key.
show_vnet_veth_interface_status(config, L, byindex) ==
    LET raising == {k \in 1..NumVeths(config) : VethRowError(L, byindex, config.veths[k]) # "none"}
    IN  IF ~HasVeths(config) THEN [error |-> "KeyError", rows |-> <<>>]
        ELSE IF raising # {}
        THEN [error |-> VethRowError(L, byindex,
                            config.veths[CHOOSE k \in raising : \A x \in raising : k <= x]),
              rows |-> <<>>]
        ELSE [error |-> "none",
              rows |-> [k \in 1..NumVeths(config) |->
                           VethRow(L, byindex, config.veths[k])]]

\* An exception leaves the status command: nothing is printed.
ShowRaise(o, err) == [o EXCEPT !.pc = "done", !.error = err]

\* for ifname in get_vnet_interface_names_from_config(config)
ShowBridgeLoop(o, i) ==
    [o EXCEPT !.i = i, !.pc = IF i > cfg.switches THEN "br_print" ELSE "br_lookup"]

\* show_vnet_interface_status: IPRoute(), NDB(log=False), up to the loop
ShowStart ==
    /\ out.pc = "idle"
    /\ out' = ShowBridgeLoop(out, 1)
    /\ UNCHANGED <<cfg, links, rules, procs, run, hist, faults, val>>

\* show_vnet_interface_status: dev = ip.link_lookup(ifname=ifname), and the
\* row of a bridge that is not there
ShowBridgeLookup ==
    /\ out.pc = "br_lookup"
    /\ out' = IF link_lookup(links, get_vnet_interface_names_from_config(cfg)[out.i]) = <<>>
              THEN ShowBridgeLoop(
                       [out EXCEPT !.rows = Append(@, BridgeRow(cfg, links, procs,
                                                                get_vnet_interface_names_from_config(cfg)[out.i]))],
                       out.i + 1)
              ELSE [out EXCEPT !.pc = "br_sniffer"]
    /\ UNCHANGED <<cfg, links, rules, procs, run, hist, faults, val>>

\* show_vnet_interface_status: sniffer = check_if_sniffer_exists(ifname)
ShowBridgeSniffer ==
    /\ out.pc = "br_sniffer"
    /\ out' = [out EXCEPT !.sniffer = check_if_sniffer_exists(procs, get_vnet_interface_names_from_config(cfg)[out.i]),
                          !.pc = "br_info"]
    /\ UNCHANGED <<cfg, links, rules, procs, run, hist, faults, val>>

\* show_vnet_interface_status: with ndb.interfaces[ifname] as info, and the
\* row; KeyError when the bridge has gone since the lookup
ShowBridgeInfo ==
    /\ out.pc = "br_info"
    /\ out' = IF ~links[get_vnet_interface_names_from_config(cfg)[out.i]].exists
              THEN ShowRaise(out, "KeyError")
              ELSE ShowBridgeLoop(
                       [out EXCEPT !.rows = Append(@, BridgeInfoRow(cfg, links[get_vnet_interface_names_from_config(cfg)[out.i]],
                                                          out.sniffer, get_vnet_interface_names_from_config(cfg)[out.i])),
                                   !.sniffer = FALSE],
                       out.i + 1)
    /\ UNCHANGED <<cfg, links, rules, procs, run, hist, faults, val>>

\* show_vnet_interface_status: print(tabulate(statuses, ...))
ShowBridgePrint ==
    /\ out.pc = "br_print"
    /\ out' = [out EXCEPT !.kind = "bridges", !.pc = "done"]
    /\ UNCHANGED <<cfg, links, rules, procs, run, hist, faults, val>>

\* show_vnet_interface_status(config): the bridge table is made row by row,
\* each read of the host a step of its own, and printed
ShowInterfaceStatus ==
    \/ ShowStart
    \/ ShowBridgeLookup
    \/ ShowBridgeSniffer
    \/ ShowBridgeInfo
    \/ ShowBridgePrint

\* for name, data in config["veths"].items()
ShowVethLoop(o, k) ==
    [o EXCEPT !.i = k, !.info = Absent, !.peer = NONE,
              !.dev = 0, !.peer_id = 0, !.master_id = 0,
              !.pc = IF k > NumVeths(cfg) THEN "v_print" ELSE "v_lookup"]

\* show_vnet_veth_interface_status: IPRoute() and config["veths"]
ShowVethStart ==
    /\ out.pc = "idle"
    /\ out' = IF ~HasVeths(cfg) THEN ShowRaise(out, "KeyError")
              ELSE ShowVethLoop(out, 1)
    /\ UNCHANGED <<cfg, links, rules, procs, run, hist, faults, val>>

\* show_vnet_veth_interface_status: dev = ip.link_lookup(ifname=name), and the
\* row of a veth that is not there
ShowVethLookup ==
    /\ out.pc = "v_lookup"
    /\ out' = IF link_lookup(links, cfg.veths[out.i].name) = <<>>
              THEN ShowVethLoop([out EXCEPT !.rows = Append(@, VethRow(links, <<>>, cfg.veths[out.i]))],
                                out.i + 1)
              ELSE [out EXCEPT !.dev = links[cfg.veths[out.i].name].index,
                               !.pc = "v_info"]
    /\ UNCHANGED <<cfg, links, rules, procs, run, hist, faults, val>>

\* show_vnet_veth_interface_status: info = ip.link("get", index=dev[0]);
\* NetlinkError when no link has the index: the veth has gone since the
\* lookup, whether or not one of its name was created again. IFLA_LINK and
\* IFLA_MASTER of the info are the indexes of its other half and its master.
ShowVethInfo ==
    /\ out.pc = "v_info"
    /\ out' = LET info == links[cfg.veths[out.i].name]
              IN  IF ~info.exists \/ info.index # out.dev
                  THEN ShowRaise(out, "NetlinkError")
                  ELSE [out EXCEPT !.info = info,
                                   !.peer_id = IF info.peer = NONE THEN 0
                                               ELSE links[info.peer].index,
                                   !.master_id = IF info.master = NONE THEN 0
                                                 ELSE links[info.master].index,
                                   !.pc = "v_peer"]
    /\ UNCHANGED <<cfg, links, rules, procs, run, hist, faults, val>>

\* show_vnet_veth_interface_status: peer_name from ip.link("get",
\* index=peer_id), NetlinkError when no link has the index; then master_id,
\* IndexError when the info has no IFLA_MASTER. The index finds the other half
\* when it is there and no link when it has gone, whether or not one of its
\* name was created again; for a veth whose other half is in another namespace
\* it finds any link or none.
ShowVethPeer ==
    /\ out.pc = "v_peer"
    /\ \E x \in IF out.info.peer = NONE
                 THEN {n \in DOMAIN links : links[n].exists} \cup {NONE}
                 ELSE IF /\ links[out.info.peer].exists
                         /\ links[out.info.peer].index = out.peer_id
                      THEN {out.info.peer} ELSE {NONE} :
          out' = IF x = NONE THEN ShowRaise(out, "NetlinkError")
                 ELSE IF out.info.master = NONE THEN ShowRaise(out, "IndexError")
                 ELSE [out EXCEPT !.peer = x, !.pc = "v_master"]
    /\ UNCHANGED <<cfg, links, rules, procs, run, hist, faults, val>>

\* show_vnet_veth_interface_status: master_name from ip.link("get",
\* index=master_id), NetlinkError when no link has the index: the master has
\* gone, whether or not one of its name was created again; and the row
ShowVethMaster ==
    /\ out.pc = "v_master"
    /\ out' = IF \/ ~links[out.info.master].exists
                 \/ links[out.info.master].index # out.master_id
              THEN ShowRaise(out, "NetlinkError")
              ELSE ShowVethLoop(
                       [out EXCEPT !.rows = Append(@, VethInfoRow(cfg.veths[out.i], out.info,
                                                          out.peer, out.info.master))],
                       out.i + 1)
    /\ UNCHANGED <<cfg, links, rules, procs, run, hist, faults, val>>

\* show_vnet_veth_interface_status: print(tabulate(statuses, ...))
ShowVethPrint ==
    /\ out.pc = "v_print"
    /\ out' = [out EXCEPT !.kind = "veths", !.pc = "done"]
    /\ UNCHANGED <<cfg, links, rules, procs, run, hist, faults, val>>

\* show_vnet_veth_interface_status(config): the veth table is made row by
\* row, each read of the host a step of its own, and printed
ShowVethInterfaceStatus ==
    \/ ShowVethStart
    \/ ShowVethLookup
    \/ ShowVethInfo
    \/ ShowVethPeer
    \/ ShowVethMaster
    \/ ShowVethPrint

\* config["machines"] with one or two machines of one interface each, every
\* "bridge" the number of one of the n switches.
StatusConfigs ==
    LET StatusMachines(n) ==
            {<<>>}
            \cup {<< [name |-> "m1", bridges |-> <<a>>] >> : a \in 0..(n - 1)}
            \cup {<< [name |-> "m1", bridges |-> <<a>>],
                     [name |-> "m2", bridges |-> <<b>>] >> :
                      a \in 0..(n - 1), b \in 0..(n - 1)}
    IN  UNION {{[switches |-> n, has_veths |-> FALSE, veths |-> <<>>, machines |-> ms] :
                   ms \in StatusMachines(n)} : n \in 0..MaxStatusSwitches}

\* The status command on a host where the switch bridges are all there (after
\* a bring-up) or all absent.
InitStatus ==
    /\ cfg \in StatusConfigs
    /\ \E up \in BOOLEAN :
          links = [n \in {BridgeName(i) : i \in 0..(MaxStatusSwitches - 1)} |->
                      IF up /\ n \in {BridgeName(i) : i \in 0..(cfg.switches - 1)}
                      THEN [NewLink("bridge", NONE,
                                    1 + CHOOSE i \in 0..(MaxStatusSwitches - 1) :
                                            BridgeName(i) = n)
                            EXCEPT !.state = "up"]
                      ELSE Absent]
    /\ rules = <<>>
    /\ procs = <<>>
    /\ run = [p \in Procs |-> Idle]
    /\ hist = <<>>
    /\ faults = 0
    /\ out = NoOutput
    /\ val = NoValidator

SpecStatus == InitStatus /\ [][ShowInterfaceStatus]_vars

\* Command lines a process of the host can have: the capture this program
\* starts on a bridge, a tcpdump that reads a bridge's capture file back, and
\* a command that is no tcpdump and names a bridge.
MaxStatusProcs == 2
RECURSIVE StatusProcsOfLen(_)
\* The process tables of m such command lines.
StatusProcsOfLen(m) ==
    LET cmdlines ==
            {TcpdumpCmdline(BridgeName(i)) :
                i \in {0, 1, MaxStatusSwitches - 2, MaxStatusSwitches - 1}}
            \cup {<< <<"tcpdump">>, <<"-r">>,
                     VNET_SNIFFER_PCAP_DIR \o BridgeName(1) \o <<".pcap">> >>,
                  << <<"ip">>, <<"link">>, <<"show">>, BridgeName(1) >>}
    IN  IF m = 0 THEN {<<>>}
        ELSE {Append(t, c) : t \in StatusProcsOfLen(m - 1), c \in cmdlines}

\* The status command on a host where the switch bridges are all there and
\* some processes run.
InitSniffer ==
    /\ cfg \in {c \in StatusConfigs : c.machines = <<>>}
    /\ links = [n \in {BridgeName(i) : i \in 0..(MaxStatusSwitches - 1)} |->
                   IF n \in {BridgeName(i) : i \in 0..(cfg.switches - 1)}
                   THEN [NewLink("bridge", NONE,
                                    1 + CHOOSE i \in 0..(MaxStatusSwitches - 1) :
                                            BridgeName(i) = n)
                            EXCEPT !.state = "up"]
                   ELSE Absent]
    /\ rules = <<>>
    /\ procs \in UNION {StatusProcsOfLen(m) : m \in 0..MaxStatusProcs}
    /\ run = [p \in Procs |-> Idle]
    /\ hist = <<>>
    /\ faults = 0
    /\ out = NoOutput
    /\ val = NoValidator

SpecSniffer == InitSniffer /\ [][ShowInterfaceStatus]_vars

\* The status command, either table, started once at any moment of the passes
\* of a config of at most MaxShowInterfaces interfaces: the passes and the
\* external actor go on between its reads of the host, until it has ended.
MaxShowInterfaces == 2

InitShow ==
    /\ Init
    /\ cfg.switches + NumVeths(cfg) <= MaxShowInterfaces

NextShow ==
    \/ out.pc # "done" /\ Next
    \/ ShowInterfaceStatus
    \/ ShowVethInterfaceStatus

SpecShow == InitShow /\ [][NextShow]_vars

\* ------------------------------------------------------- config validation
\* The user config as ValidateConfig sees it: every value is kept by the
\* Python type test the validators apply to it ("missing": the key is not in
\* the dict).  A dict is the sequence of its values in insertion order, a
\* machine is named by its position.
MaxValMachines == 2
MaxValInt == 1

ValSwitches ==
    {[kind |-> "missing", n |-> 0], [kind |-> "str", n |-> 0]}
    \cup {[kind |-> "int", n |-> n] : n \in (0 - 1)..MaxValInt}

\* The "bridge" of a machine interface.
ValBridges ==
    {[kind |-> "missing", n |-> 0], [kind |-> "str", n |-> 0]}
    \cup {[kind |-> "int", n |-> n] : n \in (0 - 1)..MaxValInt}

\* interface["routes"]: missing, not a list, the empty list, a list of one
\* route, or a list of two routes whose second has a "via" that is no address.
\* Of a route, "to" is missing, a network ip_network takes, the word "default",
\* or another value ip_network does not take; "via" is missing, an address
\* ip_address takes, or a value it does not take.
ValRoutes ==
    {[kind |-> k, items |-> <<>>] : k \in {"missing", "notlist", "list"}}
    \cup {[kind |-> "list", items |-> <<r>>] :
             r \in [to : {"missing", "network", "default", "invalid"},
                    via : {"missing", "address", "invalid"}]}
    \cup {[kind |-> "list", items |-> << [to |-> "default", via |-> "address"],
                                       [to |-> "default", via |-> "invalid"] >>]}

\* An interface with the bridge b and no ipv4, ipv6, mac or routes key. Each of
\* "ipv4", "ipv6" and "mac" is missing, or a value the parser (IPv4Interface,
\* IPv6Interface, the MAC pattern) takes ("valid"), or one it does not take
\* ("invalid").
PlainInterface(b) ==
    [bridge |-> b, ipv4 |-> "missing", ipv6 |-> "missing", mac |-> "missing",
     routes |-> [kind |-> "missing", items |-> <<>>]]

\* machine["interfaces"], of an interface with nothing but a "bridge"
ValInterfaces ==
    {[kind |-> k, items |-> <<>>] : k \in {"missing", "notdict", "dict"}}
    \cup {[kind |-> "dict", items |-> << PlainInterface(b) >>] : b \in ValBridges}

\* machine["files"]: a key is a relative path that exists below
\* config["config_dir"] only, an absolute path of a file or of a directory, a
\* relative path of a file or of a directory that exists below the working
\* directory only, or a path that is nowhere.
ValFiles ==
    {[kind |-> k, items |-> <<>>] : k \in {"missing", "notdict", "dict"}}
    \cup {[kind |-> "dict", items |-> <<f>>] :
             f \in {"relative", "absolute_file", "absolute_dir", "cwd_file", "cwd_dir",
                    "nowhere"}}

\* The machines of the model: any files with any interfaces of a bridge only,
\* or else one of the interface's other keys (ipv4, ipv6, mac, routes), type,
\* vlans and bridges away from a machine of a supported type with neither
\* vlans nor bridges. machine["vlans"], machine["bridges"]: a dict is the empty
\* dict.
ValMachines ==
    LET nominal == PlainInterface([kind |-> "int", n |-> 0])
        interfaces == [kind |-> "dict", items |-> << nominal >>]
        files == [kind |-> "missing", items |-> <<>>]
        given == {"valid", "invalid"}
        keyed == {[nominal EXCEPT !.ipv4 = a] : a \in given}
                 \cup {[nominal EXCEPT !.ipv6 = a] : a \in given}
                 \cup {[nominal EXCEPT !.mac = a] : a \in given}
                 \cup {[nominal EXCEPT !.routes = r] : r \in ValRoutes \ {nominal.routes}}
        dicts == {"missing", "notdict", "dict"}
    IN  {[type |-> "supported", files |-> f, interfaces |-> i,
          vlans |-> "missing", bridges |-> "missing"] : f \in ValFiles, i \in ValInterfaces}
        \cup {[type |-> "supported", files |-> files,
               interfaces |-> [kind |-> "dict", items |-> << i >>],
               vlans |-> "missing", bridges |-> "missing"] : i \in keyed}
        \cup {[type |-> t, files |-> files, interfaces |-> interfaces,
               vlans |-> "missing", bridges |-> "missing"] :
                 t \in {"missing", "supported", "unsupported"}}
        \cup {[type |-> "supported", files |-> files, interfaces |-> interfaces,
               vlans |-> d, bridges |-> "missing"] : d \in dicts}
        \cup {[type |-> "supported", files |-> files, interfaces |-> interfaces,
               vlans |-> "missing", bridges |-> d] : d \in dicts}

RECURSIVE ValMachineSeqsOfLen(_)
ValMachineSeqsOfLen(m) ==
    IF m = 0 THEN {<<>>}
    ELSE {Append(s, d) : s \in ValMachineSeqsOfLen(m - 1), d \in ValMachines}

ValMachinesConfigs ==
    {[kind |-> k, items |-> <<>>] : k \in {"missing", "notdict"}}
    \cup {[kind |-> "dict", items |-> s] :
             s \in UNION {ValMachineSeqsOfLen(m) : m \in 0..MaxValMachines}}

\* config["veths"]: an entry has a string for its name.
ValVeths ==
    LET entries ==
            {[values |-> "notdict", bridge |-> "missing", peer |-> "missing",
              stp |-> "missing"]}
            \cup {[values |-> "dict", bridge |-> "str", peer |-> "str", stp |-> "bool"]}
            \cup {[values |-> "dict", bridge |-> b, peer |-> "missing", stp |-> "missing"] :
                     b \in {"missing", "str", "notstr"}}
            \cup {[values |-> "dict", bridge |-> b, peer |-> "notstr", stp |-> "notbool"] :
                     b \in {"missing", "str", "notstr"}}
    IN  {[kind |-> k, items |-> <<>>] : k \in {"missing", "notdict", "dict"}}
        \cup {[kind |-> "dict", items |-> <<e>>] : e \in entries}

\* ValidateConfig.__init__
NewValidator(config) ==
    [pc |-> "new", config |-> config, all_ok |-> TRUE, validators_ran |-> 0,
     called |-> <<>>, errors |-> <<>>, updated |-> <<>>, raised |-> "none", m |-> 0]

\* logger.error(...) followed by self._all_ok = False
ValFail(v, what, machine) ==
    [v EXCEPT !.errors = Append(@, [what |-> what, machine |-> machine]),
              !.all_ok = FALSE]

\* A validator method is entered.
ValCall(v, fn, machine) ==
    [v EXCEPT !.called = Append(@, [fn |-> fn, machine |-> machine])]

\* An exception leaves the validator method and its callers.
ValRaise(v, exc) == [v EXCEPT !.raised = exc]

\* A value written to self._new_config: for the k-th file or interface of the
\* machine, and of an interface for its idx-th route (0: none).
ValUpdate(v, what, machine, k, idx) ==
    [v EXCEPT !.updated = Append(@, [what |-> what, machine |-> machine, k |-> k,
                                     idx |-> idx])]

\* validate_switch_config with the type test left out.
validate_switch_config_no_type_test(v) ==
    LET v1 == [ValCall(v, "validate_switch_config", 0) EXCEPT !.validators_ran = @ + 1]
    IN  IF v.config.switches.kind = "missing" THEN ValFail(v1, "switches_missing", 0)
        ELSE v1

\* validate_switch_config
validate_switch_config(v) ==
    LET v1 == [ValCall(v, "validate_switch_config", 0) EXCEPT !.validators_ran = @ + 1]
    IN  IF v.config.switches.kind = "missing" THEN ValFail(v1, "switches_missing", 0)
        ELSE IF v.config.switches.kind # "int" THEN ValFail(v1, "switches_not_int", 0)
        ELSE v1

\* isdir(host_file), isfile(host_file)
IsDir(f) == f \in {"absolute_dir", "cwd_dir"}
IsFile(f) == f \in {"absolute_file", "cwd_file"}
\* isdir(join(config_dir, host_file)) or isfile(join(config_dir, host_file)):
\* join gives an absolute host_file back as it is.
ExistsInConfigDir(f) ==
    IF f \in {"absolute_file", "absolute_dir"} THEN IsDir(f) \/ IsFile(f)
    ELSE f = "relative"

RECURSIVE ValidateFilesFrom(_, _, _)
ValidateFilesFrom(v, machine, k) ==
    LET files == v.config.machines.items[machine].files.items
    IN  IF k > Len(files) THEN v
        ELSE ValidateFilesFrom(
                 IF ExistsInConfigDir(files[k]) THEN ValUpdate(v, "host_file", machine, k, 0)
                 ELSE IF ~IsDir(files[k]) \/ ~IsFile(files[k])
                      THEN ValFail(v, "host_file", machine)
                      ELSE v,
                 machine, k + 1)

\* validate_machine_files_parameters
validate_machine_files_parameters(v, machine) ==
    ValidateFilesFrom(ValCall(v, "validate_machine_files_parameters", machine), machine, 1)

\* The "bridge" test of validate_interface_config: the switch count is read
\* only when the bridge is an int.
ValidateInterfaceBridge(v, machine, bridge) ==
    IF bridge.kind = "missing" THEN ValFail(v, "bridge_missing", machine)
    ELSE IF bridge.kind # "int" THEN ValFail(v, "bridge_invalid", machine)
    ELSE IF v.config.switches.kind = "missing" THEN ValRaise(v, "KeyError")
    ELSE IF v.config.switches.kind # "int" THEN ValRaise(v, "TypeError")
    ELSE IF bridge.n > v.config.switches.n - 1 THEN ValFail(v, "bridge_invalid", machine)
    ELSE v

\* validate_interface_routes: one turn of the loop, for route idx of the
\* k-th interface
ValidateRoute(v, route, k, machine, idx) ==
    LET v1 == IF route.to = "missing" THEN ValFail(v, "route_to_missing", machine)
              ELSE IF route.to = "network" THEN v
              ELSE IF route.to = "default"
                   THEN ValUpdate(v, "route_to", machine, k, idx)
              ELSE ValFail(v, "route_to_invalid", machine)
    IN  IF route.via = "missing" THEN ValFail(v1, "route_via_missing", machine)
        ELSE IF route.via = "address" THEN v1
        ELSE ValFail(v1, "route_via_invalid", machine)

RECURSIVE ValidateRoutesFrom(_, _, _, _, _)
ValidateRoutesFrom(v, routes, k, machine, idx) ==
    IF idx > Len(routes) THEN v
    ELSE ValidateRoutesFrom(ValidateRoute(v, routes[idx], k, machine, idx),
                            routes, k, machine, idx + 1)

\* validate_interface_routes, for the k-th interface of the machine
validate_interface_routes(v, routes, k, machine) ==
    ValidateRoutesFrom(ValCall(v, "validate_interface_routes", machine),
                       routes, k, machine, 1)

\* validate_interface_config: one turn of the loop, for the k-th interface:
\* the "ipv4" and "ipv6" tests, the "mac" test (a missing one is generated),
\* the "bridge" test and the "routes" test.
ValidateOneInterface(v, machine, k) ==
    LET int_vals == v.config.machines.items[machine].interfaces.items[k]
        v1 == IF int_vals.ipv4 = "invalid" THEN ValFail(v, "ipv4_invalid", machine) ELSE v
        v2 == IF int_vals.ipv6 = "invalid" THEN ValFail(v1, "ipv6_invalid", machine) ELSE v1
        v3 == IF int_vals.mac = "missing" THEN ValUpdate(v2, "mac", machine, k, 0)
              ELSE IF int_vals.mac = "invalid" THEN ValFail(v2, "mac_invalid", machine)
              ELSE v2
        v4 == ValidateInterfaceBridge(v3, machine, int_vals.bridge)
    IN  IF v4.raised # "none" THEN v4
        ELSE IF int_vals.routes.kind = "missing" THEN v4
        ELSE IF int_vals.routes.kind # "list" THEN ValFail(v4, "routes_not_list", machine)
        ELSE validate_interface_routes(v4, int_vals.routes.items, k, machine)

RECURSIVE ValidateInterfacesFrom(_, _, _)
ValidateInterfacesFrom(v, machine, k) ==
    LET interfaces == v.config.machines.items[machine].interfaces.items
    IN  IF k > Len(interfaces) \/ v.raised # "none" THEN v
        ELSE ValidateInterfacesFrom(ValidateOneInterface(v, machine, k), machine, k + 1)

\* validate_interface_config
validate_interface_config(v, machine) ==
    ValidateInterfacesFrom(ValCall(v, "validate_interface_config", machine), machine, 1)

\* validate_vlan_config, of the empty dict
validate_vlan_config(v, machine) == ValCall(v, "validate_vlan_config", machine)

\* validate_machine_bridge_config, of the empty dict
validate_machine_bridge_config(v, machine) ==
    ValCall(v, "validate_machine_bridge_config", machine)

ValidateMachineType(v, machine) ==
    LET values == v.config.machines.items[machine]
    IN  IF values.type = "missing" THEN ValFail(v, "type_missing", machine)
        ELSE IF values.type # "supported" THEN ValFail(v, "type_unsupported", machine)
        ELSE v

ValidateMachineFiles(v, machine) ==
    LET values == v.config.machines.items[machine]
    IN  IF values.files.kind = "missing" THEN v
        ELSE IF values.files.kind # "dict" THEN ValFail(v, "files_not_dict", machine)
        ELSE validate_machine_files_parameters(v, machine)

ValidateMachineInterfaces(v, machine) ==
    LET values == v.config.machines.items[machine]
    IN  IF values.interfaces.kind = "missing" THEN ValFail(v, "interfaces_missing", machine)
        ELSE IF values.interfaces.kind # "dict"
             THEN ValFail(v, "interfaces_not_dict", machine)
        ELSE validate_interface_config(v, machine)

ValidateMachineVlans(v, machine) ==
    LET values == v.config.machines.items[machine]
    IN  IF values.vlans = "missing" THEN v
        ELSE IF values.vlans # "dict" THEN ValFail(v, "vlans_not_dict", machine)
        ELSE validate_vlan_config(v, machine)

ValidateMachineBridges(v, machine) ==
    LET values == v.config.machines.items[machine]
    IN  IF values.bridges = "missing" THEN v
        ELSE IF values.bridges # "dict" THEN ValFail(v, "bridges_not_dict", machine)
        ELSE validate_machine_bridge_config(v, machine)

\* The body of the loop of validate_machine_config, for one machine.
ValidateOneMachine(v, machine) ==
    LET v3 == ValidateMachineInterfaces(
                  ValidateMachineFiles(ValidateMachineType(v, machine), machine), machine)
    IN  IF v3.raised # "none" THEN v3
        ELSE ValidateMachineBridges(ValidateMachineVlans(v3, machine), machine)

ValidateVethEntry(v, e) ==
    IF e.values # "dict" THEN ValFail(v, "veth_not_dict", 0)
    ELSE LET v1 == IF e.bridge = "missing" THEN ValFail(v, "veth_bridge_missing", 0)
                   ELSE IF e.bridge # "str" THEN ValFail(v, "veth_bridge_not_str", 0)
                   ELSE v
             v2 == IF e.peer = "missing" THEN v1
                   ELSE IF e.peer # "str" THEN ValFail(v1, "veth_peer_not_str", 0)
                   ELSE v1
         IN  IF e.stp = "missing" THEN v2
             ELSE IF e.stp # "bool" THEN ValFail(v2, "veth_stp_not_bool", 0)
             ELSE v2

RECURSIVE ValidateVethsFrom(_, _)
ValidateVethsFrom(v, k) ==
    IF k > Len(v.config.veths.items) THEN v
    ELSE ValidateVethsFrom(ValidateVethEntry(v, v.config.veths.items[k]), k + 1)

\* validate_veth_config
validate_veth_config(v) ==
    LET v1 == ValCall(v, "validate_veth_config", 0)
    IN  IF v.config.veths.kind = "missing" THEN v1
        ELSE IF v.config.veths.kind # "dict" THEN ValFail(v1, "veths_not_dict", 0)
        ELSE ValidateVethsFrom(v1, 1)

\* An exception that left a validator leaves validate() too.
ValNext(v, pc) == [v EXCEPT !.pc = IF v.raised # "none" THEN "raised" ELSE pc]

\* validate(): self._all_ok = True
ValidateStart ==
    /\ val.pc = "new"
    /\ val' = [val EXCEPT !.all_ok = TRUE, !.pc = "switch"]
    /\ UNCHANGED <<cfg, links, rules, procs, run, hist, faults, out>>

\* validate(): self.validate_switch_config()
ValidateSwitchConfig ==
    /\ val.pc = "switch"
    /\ val' = ValNext(validate_switch_config(val), "machines")
    /\ UNCHANGED <<cfg, links, rules, procs, run, hist, faults, out>>

\* validate(): self.validate_machine_config(), up to its loop
ValidateMachineConfig ==
    /\ val.pc = "machines"
    /\ LET v1 == [ValCall(val, "validate_machine_config", 0) EXCEPT !.validators_ran = @ + 1]
       IN  val' = IF val.config.machines.kind = "missing"
                  THEN ValNext(ValFail(v1, "machines_missing", 0), "veths")
                  ELSE IF val.config.machines.kind # "dict"
                  THEN ValNext(ValFail(v1, "machines_not_dict", 0), "veths")
                  ELSE IF Len(val.config.machines.items) = 0 THEN ValNext(v1, "veths")
                  ELSE [ValNext(v1, "machine") EXCEPT !.m = 1]
    /\ UNCHANGED <<cfg, links, rules, procs, run, hist, faults, out>>

\* validate_machine_config: one turn of the loop over the machines
ValidateMachine ==
    /\ val.pc = "machine"
    /\ LET v1 == ValidateOneMachine(val, val.m)
       IN  val' = IF val.m < Len(val.config.machines.items)
                  THEN [ValNext(v1, "machine") EXCEPT !.m = @ + 1]
                  ELSE ValNext(v1, "veths")
    /\ UNCHANGED <<cfg, links, rules, procs, run, hist, faults, out>>

\* validate(): if "veths" in self.config: self.validate_veth_config()
ValidateVethConfig ==
    /\ val.pc = "veths"
    /\ val' = IF val.config.veths.kind # "missing"
              THEN ValNext(validate_veth_config(val), "done")
              ELSE ValNext(val, "done")
    /\ UNCHANGED <<cfg, links, rules, procs, run, hist, faults, out>>

NextValidate ==
    \/ ValidateStart
    \/ ValidateSwitchConfig
    \/ ValidateMachineConfig
    \/ ValidateMachine
    \/ ValidateVethConfig

\* ValidateConfig(config).validate() of a config of the model, on a host the
\* program has not touched.
InitValidate ==
    /\ cfg = [switches |-> 0, has_veths |-> FALSE, veths |-> <<>>, machines |-> <<>>]
    /\ links = [n \in AllNames |-> Absent]
    /\ rules = <<>>
    /\ procs = <<>>
    /\ run = [p \in Procs |-> Idle]
    /\ hist = <<>>
    /\ faults = 0
    /\ out = NoOutput
    /\ val \in {NewValidator(c) :
                    c \in [switches : ValSwitches, machines : ValMachinesConfigs,
                           veths : ValVeths]}

SpecValidate == InitValidate /\ [][NextValidate]_vars

\* ------------------------------------------------------------------ claims
R == run[Main]
PassDone == R.pc = "done"
SwitchNames == {BridgeName(i) : i \in 0..(cfg.switches - 1)}
Declared == {cfg.veths[k] : k \in 1..NumVeths(cfg)}
Called(r, call, ifname) ==
    \E j \in 1..Len(r.calls) : r.calls[j] = [call |-> call, ifname |-> ifname]

\* The pass that just ended is a bring-up that followed, with nothing in
\* between and with the same arguments, a bring-up started on an empty host.
SecondUpOnEmptyHost ==
    /\ PassDone
    /\ Len(hist) >= 2
    /\ LET n == Len(hist)
       IN /\ hist[n - 1].op = "up" /\ hist[n - 1].empty
          /\ hist[n].op = "up" /\ hist[n].b2b
          /\ hist[n].sniffer = hist[n - 1].sniffer

\* C1 as stated: the second bring-up on an empty host issues no mutating call.
C1_SecondPassIssuesNoCall == SecondUpOnEmptyHost => R.calls = <<>>

\* C1, amended: the second bring-up on an empty host creates nothing: it issues
\* no rule insertion, no capture spawn and no bridge add, and the only veth add
\* it can issue is the one the kernel already refused in the first pass, which
\* is refused again and ends the pass; no interface, rule or capture process
\* comes into being.  It does set every switch bridge up again and, when it
\* returns, has set the master, the state and the address of every declared
\* veth again.
C1_SecondPassCreatesNothing ==
    SecondUpOnEmptyHost =>
        /\ \A j \in 1..Len(R.calls) :
              /\ R.calls[j].call \notin {"link_add_bridge", "rule_insert", "spawn_capture"}
              /\ R.calls[j].call = "link_add_veth" =>
                    /\ j = Len(R.calls)
                    /\ R.status = "NetlinkError"
                    /\ hist[Len(hist) - 1].status = "NetlinkError"
        /\ \A n \in AllNames : links[n].exists = R.pre.links[n].exists
        /\ rules = R.pre.rules /\ procs = R.pre.procs
        /\ \A b \in SwitchNames : Called(R, "set_up", b)
        /\ R.status = "ok" =>
              \A d \in Declared : /\ Called(R, "set_master", d.name)
                                  /\ Called(R, "set_down", d.name)
                                  /\ Called(R, "set_address", d.name)
                                  /\ Called(R, "set_up", d.name)

C1_Witness ==
    /\ SecondUpOnEmptyHost
    /\ R.status = "ok" /\ R.sniffer
    /\ cfg.switches >= 2 /\ NumVeths(cfg) >= 1
    /\ Len(R.calls) >= 7

\* C2 as stated: after the second bring-up on an empty host the kernel state is
\* the one the first bring-up left, addresses included.
C2_SecondPassSameState ==
    SecondUpOnEmptyHost => links = R.pre.links /\ rules = R.pre.rules

NoMac(l) == [l EXCEPT !.mac = 0]

\* C2, amended: after the second bring-up on an empty host the set of
\* interfaces, every state, master, peer and STP flag and the set of rules are
\* those the first bring-up left, and so is the address of every interface that
\* is not a declared veth; the address of a declared veth is generated anew.
C2_SecondPassSameStateButVethMac ==
    SecondUpOnEmptyHost =>
        /\ rules = R.pre.rules
        /\ \A n \in AllNames :
              IF \E d \in Declared : d.name = n
              THEN NoMac(links[n]) = NoMac(R.pre.links[n])
              ELSE links[n] = R.pre.links[n]

C2_Witness ==
    /\ SecondUpOnEmptyHost
    /\ R.status = "ok"
    /\ cfg.switches >= 1
    /\ \E d \in Declared : /\ links[d.name].exists
                           /\ links[d.name].mac # R.pre.links[d.name].mac

\* Every veth names a switch bridge of the config.
BridgesValid == \A d \in Declared : d.bridge \in SwitchNames

\* C3 as stated: whatever existed before, one bring-up pass ends with every
\* switch bridge and every declared veth existing and up, every veth attached
\* to its bridge and paired with its declared peer.
C3_BringUpConverges ==
    (PassDone /\ R.op = "up" /\ BridgesValid) =>
        /\ \A b \in SwitchNames : links[b].exists /\ links[b].state = "up"
        /\ \A d \in Declared :
              /\ links[d.name].exists /\ links[d.name].state = "up"
              /\ links[d.name].master = d.bridge
              /\ d.has_peer => links[d.name].peer = d.peer

\* The declared veths without a "peer".
NoPeerVeths == {d.name : d \in {x \in Declared : ~x.has_peer}}
\* Those of them that no declared veth names as its peer.
UnpairedVeths == {v \in NoPeerVeths : \A d \in Declared : d.peer # v}

ExistenceKept(names) == \A v \in names : links'[v].exists = links[v].exists

\* C4 as stated: no step of a pass creates or deletes a veth declared without
\* "peer", also when another declared veth names it as its peer.
C4_NoPeerVethNeverTouched == [][(\E k \in 1..MaxVeths : ExternalCreate(k)) \/ ExistenceKept(NoPeerVeths)]_vars

\* C4, amended: no step of a pass creates or deletes a veth declared without
\* "peer", unless another declared veth names it as its peer (then it is the
\* peer half of that pair, created and deleted with it).
C4_UnpairedVethNeverTouched == [][(\E k \in 1..MaxVeths : ExternalCreate(k)) \/ ExistenceKept(UnpairedVeths)]_vars

C4_Witness ==
    /\ PassDone /\ R.op = "delete" /\ R.calls # <<>>
    /\ Len(hist) = 2 /\ hist[1].op = "up" /\ hist[1].status = "ok"
    /\ \E v \in UnpairedVeths : links[v].exists /\ R.pre.links[v].master # NONE

\* C5 as stated: a veth declared with "peer" that is absent when bring-up runs
\* is created as a pair with that peer, one that exists gets no create call, and
\* one that is present when delete runs does not exist after it.
C5_PeerVethCreatedAndDeleted ==
    (PassDone /\ BridgesValid) =>
        \A d \in {x \in Declared : x.has_peer} :
            /\ (R.op = "up" /\ ~R.pre.links[d.name].exists) =>
                  /\ links[d.name].exists
                  /\ links[d.name].peer = d.peer
                  /\ Called(R, "link_add_veth", d.name)
            /\ (R.op = "up" /\ R.pre.links[d.name].exists) =>
                  ~Called(R, "link_add_veth", d.name)
            /\ (R.op = "delete" /\ R.pre.links[d.name].exists) =>
                  ~links[d.name].exists

\* Every declared veth has a "peer", and no name is used twice.
PairsDisjoint ==
    /\ \A d \in Declared : d.has_peer /\ d.peer \notin {x.name : x \in Declared}
    /\ \A d, e \in Declared : d # e => d.peer # e.peer

\* C6 as stated: when the creation of one interface fails in a bring-up pass,
\* every other switch bridge and every other declared veth still reaches its
\* target state in that pass.
C6_OthersStillReachTarget ==
    (/\ PassDone /\ R.op = "up" /\ BridgesValid /\ PairsDisjoint
     /\ R.failed.call \in {"link_add_bridge", "link_add_veth"}) =>
        /\ \A b \in SwitchNames \ {R.failed.ifname} :
              links[b].exists /\ links[b].state = "up"
        /\ \A d \in Declared :
              (d.name # R.failed.ifname /\ d.bridge # R.failed.ifname) =>
                  /\ links[d.name].exists /\ links[d.name].state = "up"
                  /\ links[d.name].master = d.bridge

\* The interfaces that come after the one the pass was at, in its order: the
\* remaining veths and then every bridge, or the remaining bridges.
LaterNames(r) ==
    IF r.k > 0
    THEN {cfg.veths[j].name : j \in (r.k + 1)..NumVeths(cfg)} \cup SwitchNames
    ELSE {BridgeName(j) : j \in (r.i + 1)..(cfg.switches - 1)}

\* C7 as stated: when the set-down or the delete call on one interface fails,
\* the interfaces that come later in the order are still acted on.
C7_LaterInterfacesStillActedOn ==
    (/\ PassDone /\ R.op \in {"down", "delete"} /\ BridgesValid /\ PairsDisjoint
     /\ R.failed.call \in {"set_down", "link_del"}) =>
        \A x \in LaterNames(R) :
            /\ R.op = "down" => (links[x].exists => links[x].state = "down")
            /\ R.op = "delete" => ~links[x].exists

\* The pass that just ended is a delete that followed a bring-up directly.
DeletedAfterUp ==
    /\ PassDone
    /\ Len(hist) >= 2
    /\ hist[Len(hist) - 1].op = "up"
    /\ hist[Len(hist)].op = "delete" /\ hist[Len(hist)].b2b

BridgeRowIsNA(row) ==
    row.status = NA /\ row.l2_addr = NA /\ row.sniffer = NA /\ row.stp = NA

\* C8 as stated: after a bring-up that returned and the delete that follows it,
\* both tables show every row with all live fields NA.
C8_AllRowsNA ==
    (DeletedAfterUp /\ BridgesValid /\ hist[Len(hist) - 1].status = "ok") =>
        /\ \A j \in 1..cfg.switches :
              BridgeRowIsNA(show_vnet_interface_status(cfg, links, procs)[j])
        /\ \A ix \in IndexLookups(links) :
              /\ HasVeths(cfg) => show_vnet_veth_interface_status(cfg, links, ix).error = "none"
              /\ \A d \in Declared :
                    /\ VethRow(links, ix, d).status = NA
                    /\ VethRow(links, ix, d).l2_addr = NA
                    /\ VethRow(links, ix, d).peer = NAName
                    /\ VethRow(links, ix, d).master = NAName

UpPassEnded == \E j \in 1..Len(hist) : hist[j].op = "up"

\* C9: no interface ever has more than one DROP rule, and once a bring-up pass
\* has ended every switch bridge has exactly one, however many passes ran.
C9_ExactlyOneRule ==
    /\ \A n \in AllNames : RuleCount(rules, n) <= 1
    /\ (PassDone /\ UpPassEnded) => \A b \in SwitchNames : RuleCount(rules, b) = 1

C9_Witness ==
    /\ PassDone /\ Len(hist) >= 2
    /\ hist[Len(hist)].op = "up" /\ hist[Len(hist) - 1].op = "up"
    /\ cfg.switches >= 2
    /\ \A b \in SwitchNames : RuleCount(rules, b) = 1 /\ RuleExists(R.pre.rules, b)

\* C10: at every point of a bring-down pass and of a delete pass the rule chain
\* and the process table are what they were when the pass started.
C10_TeardownKeepsRulesAndCaptures ==
    R.op \in {"down", "delete"} => rules = R.pre.rules /\ procs = R.pre.procs

C10_Witness ==
    /\ PassDone /\ R.op = "delete"
    /\ cfg.switches >= 1
    /\ \A b \in SwitchNames :
          /\ Called(R, "link_del", b)
          /\ RuleExists(rules, b)
          /\ check_if_sniffer_exists(procs, b)

NoState(l) == [l EXCEPT !.state = "down"]
DeclaredNames == {d.name : d \in Declared}

\* C11: at every point of a bring-down pass the set of interfaces and every
\* interface's address, master, peer and STP flag are what they were when the
\* pass started, every call it issued is a set-down, and when it has ended
\* every switch bridge and every declared veth that exists is down.
C11_BringDownOnlySetsDown ==
    R.op = "down" =>
        /\ \A n \in AllNames :
              /\ links[n].exists = R.pre.links[n].exists
              /\ links[n].exists => NoState(links[n]) = NoState(R.pre.links[n])
        /\ \A j \in 1..Len(R.calls) : R.calls[j].call = "set_down"
        /\ PassDone =>
              /\ R.status = "ok"
              /\ \A n \in SwitchNames \cup DeclaredNames :
                    links[n].exists => links[n].state = "down"

C11_Witness ==
    /\ PassDone /\ R.op = "down"
    /\ cfg.switches >= 2
    /\ \A b \in SwitchNames : R.pre.links[b].state = "up" /\ links[b].state = "down"
    /\ \E d \in Declared : /\ R.pre.links[d.name].state = "up"
                           /\ R.pre.links[d.name].master = d.bridge
                           /\ links[d.name].state = "down"
                           /\ links[d.name].master = d.bridge

\* The veth's "peer" is a name of its own: no declared veth has it as its name
\* or as its peer, and nothing of that name was there when the pass started.
PeerFree(d) ==
    /\ d.has_peer
    /\ d.peer \notin DeclaredNames
    /\ \A e \in Declared : e # d => e.peer # d.peer
    /\ ~R.pre.links[d.peer].exists

AttachedAndUp(d) ==
    /\ links[d.name].exists
    /\ links[d.name].master = d.bridge
    /\ links[d.name].state = "up"

\* C12 as stated: a bring-up pass over veths that are all there or can be
\* created, one of them with a "bridge" that does not exist, does not abort:
\* it returns, and every veth whose bridge does exist is attached and up.
C12_MissingBridgeIsNonFatal ==
    (/\ PassDone /\ R.op = "up"
     /\ \A d \in Declared : R.pre.links[d.name].exists \/ PeerFree(d)
     /\ \E d \in Declared : d.bridge \notin SwitchNames) =>
        /\ R.status = "ok"
        /\ \A d \in Declared : d.bridge \in SwitchNames => AttachedAndUp(d)

\* C13 as stated: a bring-up pass that meets a veth declared without "peer"
\* whose interface is not on the host skips it and completes: it returns, and
\* every other declared veth is attached and up.
C13_AbsentNoPeerVethIsSkipped ==
    (/\ PassDone /\ R.op = "up" /\ BridgesValid
     /\ \A d \in Declared : d.has_peer => (R.pre.links[d.name].exists \/ PeerFree(d))
     /\ \E d \in Declared : ~d.has_peer /\ ~R.pre.links[d.name].exists) =>
        /\ R.status = "ok"
        /\ \A d \in Declared :
              (d.has_peer \/ R.pre.links[d.name].exists) => AttachedAndUp(d)

\* C14: a bring-up pass in which the insertion of a bridge's DROP rule failed
\* has logged the error and gone on: that bridge and every other switch bridge
\* has been set up and is up, the pass can only have ended early inside the
\* veth loop, and when every declared veth is there or can be created and has
\* its bridge, the pass returned with every veth attached and up.
C14_RuleFailureIsNonFatal ==
    (PassDone /\ R.failed.call = "rule_insert") =>
        /\ \E j \in 1..Len(R.errors) : R.errors[j] = [what |-> "rule_insert",
                                                      ifname |-> R.failed.ifname]
        /\ ~RuleExists(rules, R.failed.ifname)
        /\ \A b \in SwitchNames :
              Called(R, "set_up", b) /\ links[b].exists /\ links[b].state = "up"
        /\ R.status # "ok" => R.k >= 1
        /\ (BridgesValid /\ \A d \in Declared : R.pre.links[d.name].exists \/ PeerFree(d))
              => (R.status = "ok" /\ \A d \in Declared : AttachedAndUp(d))

C14_Witness ==
    /\ PassDone /\ R.status = "ok"
    /\ R.failed = [call |-> "rule_insert", ifname |-> BridgeName(0)]
    /\ cfg.switches >= 2
    /\ RuleExists(rules, BridgeName(1))
    /\ \E d \in Declared : AttachedAndUp(d) /\ ~R.pre.links[d.name].exists

\* C15: every process in the table is the capture of a switch bridge and no
\* interface has more than one; a pass called without sniffer leaves the
\* process table as it was; and a pass starts a capture only for a switch
\* bridge that had none when the pass started.
C15_AtMostOneCapture ==
    /\ \A n \in AllNames : CaptureCount(procs, n) <= 1
    /\ \A j \in 1..Len(procs) : \E b \in SwitchNames : procs[j] = TcpdumpCmdline(b)
    /\ \A n \in AllNames \ SwitchNames : ~check_if_sniffer_exists(procs, n)
    /\ (R.op # "none" /\ ~R.sniffer) => procs = R.pre.procs
    /\ \A j \in 1..Len(R.calls) :
          R.calls[j].call = "spawn_capture" =>
              /\ R.sniffer /\ R.op = "up"
              /\ R.calls[j].ifname \in SwitchNames
              /\ ~check_if_sniffer_exists(R.pre.procs, R.calls[j].ifname)
              /\ CaptureCount(procs, R.calls[j].ifname) = 1

C15_Witness ==
    /\ PassDone /\ R.op = "up" /\ R.sniffer /\ R.status = "ok"
    /\ Len(hist) = 2 /\ hist[1].op = "up" /\ hist[1].sniffer
    /\ cfg.switches >= 2 /\ NumVeths(cfg) >= 1
    /\ \A b \in SwitchNames : /\ CaptureCount(procs, b) = 1
                              /\ check_if_sniffer_exists(R.pre.procs, b)

\* C16: a delete pass is about to issue a delete call only for an interface
\* that exists, every delete call it issued was for an interface that was
\* there when the pass started, and the pass returns without an error; a
\* declared veth that went away as the peer half of an earlier one gets no
\* delete call of its own.
C16_DeleteSkipsAbsent ==
    R.op = "delete" =>
        /\ R.pc = "del_v_del" => links[CurVeth(R).name].exists
        /\ R.pc = "del_br_del" => links[CurBridge(R)].exists
        /\ \A j \in 1..Len(R.calls) :
              /\ R.calls[j].call = "link_del"
              /\ R.pre.links[R.calls[j].ifname].exists
              /\ \A i \in 1..(j - 1) :
                    R.pre.links[R.calls[i].ifname].peer # R.calls[j].ifname
        /\ PassDone => R.status = "ok"

C16_Witness ==
    /\ PassDone /\ R.op = "delete" /\ R.status = "ok"
    /\ cfg.switches >= 1
    /\ \A b \in SwitchNames : Called(R, "link_del", b)
    /\ \E d, e \in Declared :
          /\ e.has_peer /\ d.has_peer /\ d.peer = e.name
          /\ R.pre.links[d.name].exists /\ R.pre.links[e.name].exists
          /\ Called(R, "link_del", d.name) /\ ~Called(R, "link_del", e.name)
          /\ ~links[e.name].exists

\* C17 as stated: when a declared veth exists with its peer half but without a
\* master, the veth table is still produced, with the placeholder in that
\* veth's Master column.
C17_NoMasterIsTolerated ==
    (/\ PassDone
     /\ \E d \in Declared : /\ links[d.name].exists
                            /\ links[d.name].master = NONE
                            /\ links[d.name].peer # NONE
                            /\ links[links[d.name].peer].exists) =>
        \A ix \in IndexLookups(links) :
            /\ show_vnet_veth_interface_status(cfg, links, ix).error = "none"
            /\ \A d \in Declared :
                  (links[d.name].exists /\ links[d.name].master = NONE) =>
                      /\ VethRowError(links, ix, d) = "none"
                      /\ VethRow(links, ix, d).master \in {NONE, NAName}

\* The rows of a table that carry the name.
RowsOf(rows, name) == {j \in DOMAIN rows : rows[j].name = name}

\* The bridge table has exactly one row for every switch bridge that does not
\* exist, with Status, L2_addr, Sniffer and STP all NA.
AbsentBridgeRowsNA ==
    LET rows == show_vnet_interface_status(cfg, links, procs)
    IN \A b \in SwitchNames :
          ~links[b].exists =>
              /\ Cardinality(RowsOf(rows, b)) = 1
              /\ \A j \in RowsOf(rows, b) : BridgeRowIsNA(rows[j])

\* C18 as stated: the row of every absent switch bridge and of every absent
\* declared veth has the placeholder in every live field, Master included.
C18_AbsentRowsAllNA ==
    /\ AbsentBridgeRowsNA
    /\ \A ix \in IndexLookups(links), d \in Declared :
          ~links[d.name].exists =>
              /\ VethRowError(links, ix, d) = "none"
              /\ VethRow(links, ix, d) =
                    [name |-> d.name, status |-> NA, l2_addr |-> NA,
                     peer |-> NAName, master |-> NAName]

\* The machines of the config that declare an interface on switch i.
MachinesOn(config, i) ==
    {config.machines[m].name : m \in {x \in DOMAIN config.machines :
        \E t \in DOMAIN config.machines[x].bridges : config.machines[x].bridges[t] = i}}

\* C19 as stated: in the bridge table, the "Used by" column of the row of
\* switch i names exactly the machines that declare an interface on switch i,
\* for every i below the switch count, two-digit ones included.
C19_UsedByIsExact ==
    out.kind = "bridges" =>
        \A i \in 0..(cfg.switches - 1) :
            /\ out.rows[i + 1].name = BridgeName(i)
            /\ {out.rows[i + 1].used_by[x] : x \in DOMAIN out.rows[i + 1].used_by}
                  = MachinesOn(cfg, i)

\* A step of a bring-up pass that is under way.
InUpPass == R.op = "up" /\ R.pc \notin {"idle", "done"}

StaysThere(n) == links[n].exists => links'[n].exists
StaysAttached(n) == links[n].master # NONE => links'[n].master = links[n].master
SetDown(n) == links[n].state = "up" /\ links'[n].state = "down"

\* C20 as stated: no step of a bring-up pass deletes a switch bridge or a
\* declared veth, detaches it, or sets it down when it is up.
C20_NeverBackward ==
    [][InUpPass => \A n \in SwitchNames \cup DeclaredNames :
                      StaysThere(n) /\ StaysAttached(n) /\ ~SetDown(n)]_vars

\* C20, amended: no step of a bring-up pass deletes or detaches an interface,
\* and the only step that sets an interface down that is up is the first step
\* of the initialization (down, new address, up) of a declared veth, on that
\* veth; a switch bridge that is up is never set down, and when the pass
\* returns every switch bridge and every declared veth is up.
C20_BackOnlyInVethInit ==
    /\ [][InUpPass => \A n \in AllNames :
                         /\ StaysThere(n) /\ StaysAttached(n)
                         /\ SetDown(n) => /\ R.pc = "cfg_down" /\ R.k >= 1
                                          /\ n = CurVeth(R).name]_vars
    /\ []((PassDone /\ R.op = "up" /\ R.status = "ok") =>
              \A n \in SwitchNames \cup DeclaredNames : links[n].state = "up")

C20_Witness ==
    /\ PassDone /\ R.op = "up" /\ R.status = "ok"
    /\ cfg.switches >= 1
    /\ \A b \in SwitchNames : R.pre.links[b].state = "up" /\ links[b].state = "up"
    /\ \E d \in Declared : /\ R.pre.links[d.name].state = "up"
                           /\ Called(R, "set_down", d.name)
                           /\ Called(R, "set_up", d.name)
                           /\ links[d.name].state = "up"

\* No pass was started while another one was under way.
Serialised == \A p \in Procs : ~run[p].overlap

\* The process is about to issue, or has issued and been refused, a create
\* call for an interface that exists.
CreatesExisting(p) ==
    \/ run[p].pc = "up_br_add" /\ links[CurBridge(run[p])].exists
    \/ run[p].pc = "up_v_add" /\ links[CurVeth(run[p]).name].exists
    \/ /\ run[p].pc = "done" /\ run[p].status = "NetlinkError"
       /\ run[p].calls # <<>>
       /\ run[p].calls[Len(run[p].calls)].call \in {"link_add_bridge", "link_add_veth"}
       /\ links[run[p].calls[Len(run[p].calls)].ifname].exists

\* C21: when the two bring-up passes run one after the other, no create call
\* is issued for an interface that exists and no interface has more than one
\* DROP rule or more than one capture process; the witness is the state two
\* interleaved passes reach, in which all three have happened.
C21_SerialPassesAreSafe ==
    Serialised =>
        /\ \A p \in Procs : ~CreatesExisting(p)
        /\ \A n \in AllNames : RuleCount(rules, n) <= 1 /\ CaptureCount(procs, n) <= 1

C21_Witness ==
    /\ ~Serialised
    /\ \A p \in Procs : run[p].pc = "done"
    /\ RuleCount(rules, BridgeName(0)) = 2
    /\ CaptureCount(procs, BridgeName(0)) = 2
    /\ \E p \in Procs : /\ CreatesExisting(p)
                        /\ run[p].calls[Len(run[p].calls)].call = "link_add_veth"

\* The declared veths with a "peer" that were there, attached to their bridge,
\* when the pass started.
AttachedPairsBefore ==
    {d \in Declared : /\ d.has_peer
                      /\ R.pre.links[d.name].exists
                      /\ R.pre.links[d.name].master = d.bridge}

\* C22 as stated: after a delete pass every veth declared with "peer" that was
\* attached to its bridge is gone, and that bridge still exists with its DROP
\* rule.
C22_DeleteLeavesBridge ==
    (PassDone /\ R.op = "delete") =>
        \A d \in AttachedPairsBefore :
            /\ ~links[d.name].exists
            /\ links[d.bridge].exists
            /\ RuleExists(rules, d.bridge)

\* C22, amended: after a delete pass every veth declared with "peer" that was
\* attached to its bridge is gone together with its peer half; the rule chain
\* and the process table are what they were, so the bridge's DROP rule and
\* any capture on it are still there; the bridge itself is gone when it is a
\* switch bridge of the config, and when it is not it still exists, up or down
\* and with the STP flag as before.
C22_DeleteRemovesPairKeepsForeignBridge ==
    (PassDone /\ R.op = "delete") =>
        /\ \A d \in AttachedPairsBefore :
              /\ ~links[d.name].exists
              /\ ~links[R.pre.links[d.name].peer].exists
              /\ d.bridge \in SwitchNames => ~links[d.bridge].exists
              /\ d.bridge \notin SwitchNames =>
                    /\ links[d.bridge].exists
                    /\ links[d.bridge].kind = "bridge"
                    /\ links[d.bridge].index = R.pre.links[d.bridge].index
                    /\ links[d.bridge].state = R.pre.links[d.bridge].state
                    /\ links[d.bridge].stp = R.pre.links[d.bridge].stp
              /\ RuleCount(rules, d.bridge) = RuleCount(R.pre.rules, d.bridge)
              /\ CaptureCount(procs, d.bridge) = CaptureCount(R.pre.procs, d.bridge)
        /\ rules = R.pre.rules
        /\ procs = R.pre.procs

\* A delete pass has removed two attached pairs' veths, one on a switch bridge
\* that had a DROP rule and a capture and is gone, the other on a bridge that
\* is no switch bridge and is still there.
C22_Witness ==
    /\ PassDone /\ R.op = "delete"
    /\ \E d \in AttachedPairsBefore :
          /\ d.bridge \in SwitchNames
          /\ R.pre.links[d.name].state = "up"
          /\ RuleCount(rules, d.bridge) = 1
          /\ CaptureCount(procs, d.bridge) = 1
          /\ ~links[d.bridge].exists /\ ~links[d.name].exists
          /\ Called(R, "link_del", d.name) /\ Called(R, "link_del", d.bridge)
    /\ \E d \in AttachedPairsBefore :
          /\ d.bridge \notin SwitchNames
          /\ ~links[d.name].exists
          /\ links[d.bridge].exists
          /\ ~Called(R, "link_del", d.bridge)

\* How often the validator method fn was entered.
CallsOf(v, fn) == Cardinality({j \in 1..Len(v.called) : v.called[j].fn = fn})
\* The call of validate() is over: it returned or an exception left it.
ValidateEnded == val.pc \in {"done", "raised"}

\* C23 as stated: a call of validate() that is over has called the provider
\* validator, the switch validator and the machine validator once each, and
\* the veth validator once when the config has a "veths" key and never when it
\* has none.
C23_EachValidatorCalledOnce ==
    ValidateEnded =>
        /\ CallsOf(val, "validate_provider_config") = 1
        /\ CallsOf(val, "validate_switch_config") = 1
        /\ CallsOf(val, "validate_machine_config") = 1
        /\ CallsOf(val, "validate_veth_config")
               = (IF val.config.veths.kind # "missing" THEN 1 ELSE 0)

\* validate_switch_config has just returned to validate().
SwitchValidated == val.pc = "machines"

\* C24: when validate_switch_config has returned, validators_ran has been
\* incremented; with "switches" present and an int the result is still
\* successful and no error was logged, with "switches" missing or not an int
\* the result is failed and exactly one error was logged; and no exception
\* leaves validate() before the machine validator is entered.
C24_SwitchValidatorNeverRaises ==
    /\ SwitchValidated =>
          /\ val.validators_ran = 1
          /\ val.raised = "none"
          /\ val.config.switches.kind = "int" => (val.all_ok /\ val.errors = <<>>)
          /\ val.config.switches.kind # "int" => (~val.all_ok /\ Len(val.errors) = 1)
    /\ val.pc = "raised" => CallsOf(val, "validate_machine_config") = 1

\* "switches" is not an int and the switch validator has failed the config
\* with one error.
C24_Witness ==
    /\ SwitchValidated
    /\ val.config.switches.kind = "str"
    /\ ~val.all_ok
    /\ val.errors = << [what |-> "switches_not_int", machine |-> 0] >>
    /\ val.validators_ran = 1

\* How often the validator method fn was entered for the machine.
CallsFor(v, fn, machine) ==
    Cardinality({j \in 1..Len(v.called) :
                    v.called[j] = [fn |-> fn, machine |-> machine]})
\* An error of the kind what was logged for the machine.
FailedFor(v, what, machine) ==
    \E j \in 1..Len(v.errors) : v.errors[j] = [what |-> what, machine |-> machine]
\* validate_machine_config is over: it returned or an exception left it.
MachinesValidated == val.pc \in {"veths", "done", "raised"}
ValMachineAt(m) == val.config.machines.items[m]

\* What validate_machine_config owes the machine m.
DispatchedRight(m) ==
    /\ ValMachineAt(m).interfaces.kind = "dict" =>
          CallsFor(val, "validate_interface_config", m) = 1
    /\ ValMachineAt(m).interfaces.kind # "dict" =>
          /\ CallsFor(val, "validate_interface_config", m) = 0
          /\ ~val.all_ok
    /\ ValMachineAt(m).files.kind = "dict" =>
          CallsFor(val, "validate_machine_files_parameters", m) = 1
    /\ ValMachineAt(m).files.kind = "notdict" =>
          /\ CallsFor(val, "validate_machine_files_parameters", m) = 0
          /\ ~val.all_ok
    /\ ValMachineAt(m).files.kind = "missing" =>
          /\ CallsFor(val, "validate_machine_files_parameters", m) = 0
          /\ ~FailedFor(val, "files_not_dict", m)
          /\ ~FailedFor(val, "host_file", m)

\* C25 as stated: when validate_machine_config is over, the interface
\* validator was called once for every machine whose "interfaces" is a dict
\* and never for another machine, which failed the config; the files validator
\* was called once for every machine whose "files" is a dict, a "files" that is
\* not a dict failed the config, an absent "files" did neither; an error for
\* one machine left no later machine out.
C25_EveryMachineIsDispatched ==
    (MachinesValidated /\ val.config.machines.kind = "dict") =>
        \A m \in 1..Len(val.config.machines.items) : DispatchedRight(m)

\* A logged call is a step of the bridge loop of bring-up (a veth's STP write
\* names a bridge but belongs to the veth loop).
IsBridgeStep(c) ==
    \/ c.call \in {"link_add_bridge", "rule_insert", "spawn_capture"}
    \/ c.call \in {"set_down", "set_address", "set_up"} /\ c.ifname \in BridgeNames
BridgeIdx(n) == CHOOSE i \in 0..(MaxSwitches - 1) : BridgeName(i) = n
\* The place of the j-th logged call in the steps for its bridge: create (link
\* add, then down, address and up of the new link), rule, set up, capture.
StepRank(r, j) ==
    CASE r.calls[j].call = "link_add_bridge" -> 1
      [] r.calls[j].call = "set_down" -> 2
      [] r.calls[j].call = "set_address" -> 3
      [] r.calls[j].call = "rule_insert" -> 5
      [] r.calls[j].call = "spawn_capture" -> 7
      [] OTHER -> IF j > 1 /\ r.calls[j - 1] = [call |-> "set_address",
                                                ifname |-> r.calls[j].ifname]
                  THEN 4 ELSE 6
AtBridgeStep(pcs) == R.op = "up" /\ R.k = 0 /\ R.pc \in pcs

\* C26: in a bring-up pass every call for a switch bridge that is made right
\* after another (the last of the log, in every state) is for the same bridge
\* and a later step of create, rule insertion, set up, capture start, or is
\* for a bridge of higher index, so the calls come bridge by bridge in
\* increasing order, each step at most once; a call that follows a veth call
\* is never a bridge call; the rule is looked for only once the bridge
\* exists, the bridge is set up only once its rule is in the chain, a capture
\* is looked for only once the bridge is up and started only if asked for.
C26_BridgeStepsInOrder ==
    /\ R.op = "up" =>
          \A j \in {Len(R.calls) - 1} \cap (1..Len(R.calls)) :
              /\ (IsBridgeStep(R.calls[j]) /\ IsBridgeStep(R.calls[j + 1])) =>
                    \/ BridgeIdx(R.calls[j].ifname) < BridgeIdx(R.calls[j + 1].ifname)
                    \/ /\ R.calls[j].ifname = R.calls[j + 1].ifname
                       /\ StepRank(R, j) < StepRank(R, j + 1)
              /\ ~IsBridgeStep(R.calls[j]) => ~IsBridgeStep(R.calls[j + 1])
    /\ AtBridgeStep({"up_br_rule_check", "up_br_rule_add", "up_br_set_up",
                     "up_br_sniffer_check", "up_br_spawn"}) =>
          /\ links[CurBridge(R)].exists
          /\ \A i \in 0..(R.i - 1) :
                links[BridgeName(i)].state = "up" /\ RuleExists(rules, BridgeName(i))
    /\ AtBridgeStep({"up_br_set_up", "up_br_sniffer_check", "up_br_spawn"}) =>
          RuleExists(rules, CurBridge(R))
    /\ AtBridgeStep({"up_br_sniffer_check", "up_br_spawn"}) =>
          links[CurBridge(R)].state = "up" /\ R.sniffer

\* A bring-up with capture on a host without the bridges has returned: both
\* bridges were created, ruled, set up and given a capture, in that order,
\* before the first veth call.
C26_Witness ==
    /\ PassDone /\ R.op = "up" /\ R.status = "ok" /\ R.sniffer
    /\ cfg.switches = 2 /\ NumVeths(cfg) >= 1
    /\ Len(R.calls) >= 15
    /\ SubSeq(R.calls, 1, 14) =
          [j \in 1..14 |->
              [call |-> <<"link_add_bridge", "set_down", "set_address", "set_up",
                          "rule_insert", "set_up", "spawn_capture">>[((j - 1) % 7) + 1],
               ifname |-> BridgeName((j - 1) \div 7)]]
    /\ ~IsBridgeStep(R.calls[15])

\* The newest logged call of the main process, and the one before it.
LastCall == R.calls[Len(R.calls)]
PrevCall == IF Len(R.calls) > 1 THEN R.calls[Len(R.calls) - 1]
            ELSE [call |-> "none", ifname |-> NONE]
\* The call before is no step for the same veth: it ended the bridge loop or
\* the steps of an earlier veth, or there was none.
PrevIsEarlier == PrevCall.call \in {"none", "set_up", "spawn_capture"}
VethDeclaredAs(n) == cfg.veths[n[2]]
Mk(call, ifname) == [call |-> call, ifname |-> ifname]

\* The newest call, a step for a declared veth, is the step the order of
\* ensure_vnet_veth_interfaces puts after the call before it.
VethStepInPlace ==
    /\ LastCall.call = "set_stp" =>
          /\ CurVeth(R).has_stp /\ LastCall.ifname = CurVeth(R).bridge
          /\ PrevIsEarlier
    /\ LastCall.call = "link_add_veth" =>
          LET d == VethDeclaredAs(LastCall.ifname)
          IN  /\ d.has_peer
              /\ IF d.has_stp THEN PrevCall = Mk("set_stp", d.bridge) ELSE PrevIsEarlier
    /\ LastCall.call = "set_master" =>
          LET d == VethDeclaredAs(LastCall.ifname)
          IN  \/ PrevCall = Mk("link_add_veth", d.name)
              \/ IF d.has_stp THEN PrevCall = Mk("set_stp", d.bridge) ELSE PrevIsEarlier
    /\ (LastCall.call = "set_down" /\ LastCall.ifname \in VethNames) =>
          PrevCall = Mk("set_master", LastCall.ifname)
    /\ (LastCall.call = "set_address" /\ LastCall.ifname \in VethNames) =>
          PrevCall = Mk("set_down", LastCall.ifname)
    /\ (LastCall.call = "set_up" /\ LastCall.ifname \in VethNames) =>
          PrevCall = Mk("set_address", LastCall.ifname)

\* C27: in a bring-up pass every call for a declared veth is made in its
\* place: the STP write (only for a veth that declares "stp", to its bridge)
\* first, the pair creation (only for a veth with "peer" that is not there)
\* next, then the attach, then down, address, up; so the STP write always
\* precedes the attach. A pass that returned made the STP write for every veth
\* that declares "stp" and attached and initialized every declared veth.
C27_VethStepsInOrder ==
    /\ (R.op = "up" /\ Len(R.calls) > 0) => VethStepInPlace
    /\ (R.op = "up" /\ R.pc = "up_v_add") =>
          CurVeth(R).has_peer /\ ~links[CurVeth(R).name].exists
    /\ (PassDone /\ R.op = "up" /\ R.status = "ok" /\ HasVeths(cfg)) =>
          \A d \in Declared :
              /\ d.has_stp => Called(R, "set_stp", d.bridge)
              /\ Called(R, "set_master", d.name)
              /\ Called(R, "set_up", d.name)

\* A bring-up has returned that wrote the STP flag for veth1, created its
\* pair, attached it and initialized it, one call after the other.
C27_Witness ==
    /\ PassDone /\ R.op = "up" /\ R.status = "ok"
    /\ NumVeths(cfg) >= 1 /\ cfg.veths[1].has_stp /\ cfg.veths[1].has_peer
    /\ \E j \in 1..(Len(R.calls) - 5) :
          SubSeq(R.calls, j, j + 5) =
              << Mk("set_stp", cfg.veths[1].bridge), Mk("link_add_veth", VethName(1)),
                 Mk("set_master", VethName(1)), Mk("set_down", VethName(1)),
                 Mk("set_address", VethName(1)), Mk("set_up", VethName(1)) >>

\* A warning was logged for the interface.
Warned(r, ifname) == \E j \in 1..Len(r.warnings) : r.warnings[j].ifname = ifname
\* Some call was logged for the interface.
AnyCall(r, ifname) == \E j \in 1..Len(r.calls) : r.calls[j].ifname = ifname

\* Bring-down sets the veths down before the bridges and delete deletes the
\* veths before the bridges: in such a pass no call for a veth is logged right
\* after a call for a bridge (the log is looked at as it grows).
VethsBeforeBridges ==
    (R.op \in {"down", "delete"} /\ Len(R.calls) > 1) =>
        ~(PrevCall.ifname \in BridgeNames /\ LastCall.ifname \in VethNames)

\* C28 as stated: in a bring-down pass the veths are set down before any
\* switch bridge, in a delete pass the veths with a peer are deleted before
\* any switch bridge, and a declared veth that was not there when a bring-down
\* pass started got no kernel call and a warning in the log.
C28_AbsentVethIsWarnedAbout ==
    /\ VethsBeforeBridges
    /\ (PassDone /\ R.op = "down") =>
          \A d \in Declared :
              ~R.pre.links[d.name].exists =>
                  ~AnyCall(R, d.name) /\ Warned(R, d.name)

\* The step changes nothing of the link table but the field of one link.
OnlyStateOf(n, st) == links' = [links EXCEPT ![n].state = st]
OnlyMacOf(n) ==
    \E mac \in random_mac_generator :
        links' = [links EXCEPT ![n].mac = mac, ![n].addr_set = TRUE]
InInit(pc) == R.pc = pc /\ links[CurName(R)].exists

\* C29: the initialization of an interface that exists is three steps, each
\* changing that one link and one field of it: state down, then a MAC from the
\* generator, then state up; the MAC is written while the link is down and no
\* other step of any pass changes the MAC of a link that stays; the link is up
\* when the initialization returns; and the three calls are logged one after
\* the other in every pass that initializes the interface.
C29_InitializeIsDownMacUp ==
    /\ [][/\ InInit("cfg_down") =>
               OnlyStateOf(CurName(R), "down") /\ run'[Main].pc = "cfg_mac"
          /\ InInit("cfg_mac") =>
               /\ links[CurName(R)].state = "down"
               /\ OnlyMacOf(CurName(R)) /\ run'[Main].pc = "cfg_up"
          /\ InInit("cfg_up") =>
               /\ links[CurName(R)].state = "down"
               /\ OnlyStateOf(CurName(R), "up")
               /\ run'[Main].pc \notin {"cfg_down", "cfg_mac", "cfg_up"}
          /\ \A n \in AllNames :
               (links[n].exists /\ links'[n].exists /\ links'[n].mac # links[n].mac) =>
                   R.pc = "cfg_mac" /\ n = CurName(R)]_vars
    /\ [](Len(R.calls) > 1 =>
            /\ LastCall.call = "set_address" => PrevCall = Mk("set_down", LastCall.ifname)
            /\ PrevCall.call = "set_address" => LastCall = Mk("set_up", PrevCall.ifname))

\* A second bring-up has returned that initialized veth1 again: it was there,
\* up and with the MAC the first pass gave it; it was set down, was given
\* another MAC and is up.
C29_Witness ==
    /\ PassDone /\ R.op = "up" /\ R.status = "ok" /\ R.b2b
    /\ NumVeths(cfg) >= 1
    /\ R.pre.links[VethName(1)].exists /\ R.pre.links[VethName(1)].state = "up"
    /\ R.pre.links[VethName(1)].mac \in random_mac_generator
    /\ \E j \in 1..(Len(R.calls) - 2) :
          SubSeq(R.calls, j, j + 2) = << Mk("set_down", VethName(1)),
                                        Mk("set_address", VethName(1)),
                                        Mk("set_up", VethName(1)) >>
    /\ links[VethName(1)].mac \in random_mac_generator \ {R.pre.links[VethName(1)].mac}
    /\ links[VethName(1)].state = "up"

\* The interfaces attached to the bridge.
PortsOf(L, b) == {n \in AllNames : L[n].exists /\ L[n].master = b}
\* The bridge was on the host when the pass of the main process started.
WasThere(b) == R.pre.links[b].exists

\* C30: a step of a bring-up pass leaves a switch bridge that was there when
\* the pass started as it is, but for the bridge loop's set-up of that bridge
\* (its state becomes up, nothing else) and the STP write of a veth that
\* declares "stp" for that bridge (its flag becomes the declared one, nothing
\* else), and no step of the bridge loop changes the set of its ports; the
\* pass logs no create, set-down or address call for it. A bridge for which a
\* create call is logged was absent, and when the pass has returned every
\* bridge that was absent has been created and has a MAC of the generator.
C30_ExistingBridgeIsLeftAlone ==
    /\ [][InUpPass => \A b \in SwitchNames : WasThere(b) =>
             /\ \/ links'[b] = links[b]
                \/ /\ R.pc = "up_br_set_up" /\ b = CurBridge(R)
                   /\ links'[b] = [links[b] EXCEPT !.state = "up"]
                \/ /\ R.pc = "up_v_stp" /\ CurVeth(R).has_stp /\ CurVeth(R).bridge = b
                   /\ links'[b] = [links[b] EXCEPT !.stp = CurVeth(R).stp]
             /\ R.k = 0 => PortsOf(links', b) = PortsOf(links, b)]_vars
    /\ [](R.op = "up" => \A b \in SwitchNames :
             /\ WasThere(b) => /\ ~Called(R, "link_add_bridge", b)
                               /\ ~Called(R, "set_down", b)
                               /\ ~Called(R, "set_address", b)
             /\ (PassDone /\ R.status = "ok" /\ ~WasThere(b)) =>
                   /\ Called(R, "link_add_bridge", b)
                   /\ links[b].exists /\ links[b].mac \in random_mac_generator)

\* A bring-up has returned that found br0 on the host with a port attached:
\* it issued the set-up call for it and left it as it was, and a veth's STP
\* write for it is the only other call that names it.
C30_Witness ==
    /\ PassDone /\ R.op = "up" /\ R.status = "ok"
    /\ cfg.switches >= 1 /\ WasThere(BridgeName(0))
    /\ PortsOf(R.pre.links, BridgeName(0)) # {}
    /\ Called(R, "set_up", BridgeName(0))
    /\ [links[BridgeName(0)] EXCEPT !.stp = FALSE]
           = [R.pre.links[BridgeName(0)] EXCEPT !.stp = FALSE]
    /\ links[BridgeName(0)].mac \in random_mac_generator

\* The arguments of a command line, as a set.
ArgsOf(line) == {line[t] : t \in DOMAIN line}
\* Some process has both 'tcpdump' and the interface name among its arguments.
CapturedBy(table, ifname) ==
    \E j \in DOMAIN table : {<<"tcpdump">>, ifname} \subseteq ArgsOf(table[j])

\* C31: in the bridge table the Sniffer column of a bridge is True exactly
\* when some process has 'tcpdump' and the bridge's name as whole arguments;
\* the capture of a bridge whose name only contains the name (br10 for br1)
\* and a tcpdump that names the bridge only inside a file path do not count.
C31_SnifferIsExactTokenMatch ==
    out.kind = "bridges" =>
        \A i \in 1..cfg.switches :
            /\ out.rows[i].sniffer = PyStr(CapturedBy(procs, BridgeName(i - 1)))
            /\ (\A j \in DOMAIN procs : procs[j] # TcpdumpCmdline(BridgeName(i - 1)))
                 => out.rows[i].sniffer = "False"

\* The table was printed on a host where the only captures run on br10 and
\* from br1's capture file: br1 has no sniffer, br10 has one.
C31_Witness ==
    /\ out.kind = "bridges"
    /\ cfg.switches = MaxStatusSwitches
    /\ procs = << TcpdumpCmdline(BridgeName(MaxStatusSwitches - 2)),
                  << <<"tcpdump">>, <<"-r">>,
                     VNET_SNIFFER_PCAP_DIR \o BridgeName(1) \o <<".pcap">> >> >>
    /\ out.rows[2].sniffer = "False"
    /\ out.rows[MaxStatusSwitches - 1].sniffer = "True"

\* The veths, by position, that name the bridge and declare "stp".
StpDeclarers(b) ==
    {k \in 1..NumVeths(cfg) : cfg.veths[k].has_stp /\ cfg.veths[k].bridge = b}
LastOf(ks) == CHOOSE k \in ks : \A x \in ks : x <= k

\* C32: when a bring-up pass has returned, the STP flag of every bridge on the
\* host is the "stp" of the last veth, in declaration order, that names the
\* bridge and declares "stp", and with no such veth it is the flag the bridge
\* had when the pass started (the kernel's default, off, for a bridge the pass
\* created); and the only step of a bring-up pass that changes the STP flag of
\* a bridge is the STP write of a veth that declares "stp" for that bridge.
C32_StpIsLastDeclared ==
    /\ []((PassDone /\ R.op = "up" /\ R.status = "ok") =>
            \A b \in BridgeNames : links[b].exists =>
                links[b].stp = IF StpDeclarers(b) # {}
                               THEN cfg.veths[LastOf(StpDeclarers(b))].stp
                               ELSE R.pre.links[b].stp)
    /\ [][InUpPass => \A b \in BridgeNames :
             (links[b].exists /\ links'[b].exists /\ links'[b].stp # links[b].stp) =>
                 /\ R.pc = "up_v_stp" /\ CurVeth(R).has_stp /\ CurVeth(R).bridge = b
                 /\ links'[b].stp = CurVeth(R).stp]_vars

\* A bring-up has returned in which veth1 turned STP on for br0 and veth2,
\* declared after it, turned it off again; br1, which no veth names, has the
\* flag it had.
C32_Witness ==
    /\ PassDone /\ R.op = "up" /\ R.status = "ok"
    /\ cfg.switches = 1 /\ NumVeths(cfg) = 2
    /\ cfg.veths[1].bridge = BridgeName(0) /\ cfg.veths[1].has_stp /\ cfg.veths[1].stp
    /\ cfg.veths[2].bridge = BridgeName(0) /\ cfg.veths[2].has_stp /\ ~cfg.veths[2].stp
    /\ Len(SelectSeq(R.calls, LAMBDA c : c = Mk("set_stp", BridgeName(0)))) = 2
    /\ ~links[BridgeName(0)].stp

\* The interface validator was called for the machine m of a config whose
\* "switches" is an int.
InterfacesValidated(m) ==
    /\ MachinesValidated
    /\ val.config.machines.kind = "dict"
    /\ val.config.switches.kind = "int"
    /\ m \in 1..Len(val.config.machines.items)
    /\ CallsFor(val, "validate_interface_config", m) = 1
\* The bridge value is the index of a switch bridge of the config.
NamesSwitchBridge(bridge) ==
    /\ bridge.kind = "int"
    /\ bridge.n >= 0
    /\ bridge.n < val.config.switches.n

\* C33 as stated: when validate_interface_config has run for a machine, every
\* interface of it whose "bridge" is missing, is not an int or is not in
\* [0, switches) has failed the config with an error logged for the machine, a
\* negative bridge number included, and no error about the bridge is logged
\* for a machine whose interfaces all name a switch bridge.
C33_BridgeOutsideSwitchesFails ==
    \A m \in 1..MaxValMachines :
        InterfacesValidated(m) =>
            LET ifs == ValMachineAt(m).interfaces.items
                bad == {k \in 1..Len(ifs) : ~NamesSwitchBridge(ifs[k].bridge)}
            IN  /\ bad # {} =>
                      /\ ~val.all_ok
                      /\ \/ FailedFor(val, "bridge_missing", m)
                         \/ FailedFor(val, "bridge_invalid", m)
                /\ bad = {} =>
                      /\ ~FailedFor(val, "bridge_missing", m)
                      /\ ~FailedFor(val, "bridge_invalid", m)

\* C34 as stated: a call of validate() on a config whose "switches" is missing
\* or not an int, whatever its machines, returns without raising and leaves
\* config_validation_successful False.
C34_ValidateNeverRaises ==
    (ValidateEnded /\ val.config.switches.kind # "int") =>
        /\ val.pc = "done"
        /\ val.raised = "none"
        /\ ~val.all_ok

\* The files validator was called for the machine m.
FilesValidated(m) ==
    /\ MachinesValidated
    /\ val.config.machines.kind = "dict"
    /\ m \in 1..Len(val.config.machines.items)
    /\ CallsFor(val, "validate_machine_files_parameters", m) = 1
\* The path was rewritten in the updated config.
RewrittenFor(v, machine, k) ==
    \E j \in 1..Len(v.updated) :
        v.updated[j] = [what |-> "host_file", machine |-> machine, k |-> k, idx |-> 0]

\* C35 as stated: when validate_machine_files_parameters has run for a
\* machine, a host path that exists below the config directory was rewritten
\* to its full path, and an error about a host path was logged for the machine
\* exactly when one of its host paths is neither an existing file nor an
\* existing directory, below the config directory or as it is written.
C35_ExistingHostPathIsAccepted ==
    \A m \in 1..MaxValMachines :
        FilesValidated(m) =>
            LET files == ValMachineAt(m).files.items
            IN  /\ \A k \in 1..Len(files) :
                      ExistsInConfigDir(files[k]) => RewrittenFor(val, m, k)
                /\ FailedFor(val, "host_file", m)
                     <=> \E k \in 1..Len(files) :
                            /\ ~ExistsInConfigDir(files[k])
                            /\ ~IsFile(files[k])
                            /\ ~IsDir(files[k])

====
